---- MODULE Spec2Model ----
(***************************************************************************)
(* A model of the RPC node simulator: the per-chain height clock, the      *)
(* administrative control handlers, the subscription registry and the      *)
(* broadcast fan-out over client connections.                              *)
(***************************************************************************)
EXTENDS Integers, Sequences, FiniteSets, TLC

(***************************************************************************)
(* Bounds of the model.                                                    *)
(***************************************************************************)
\* ticks a chain may advance between two administrative height changes
MaxTicks == 2
\* subscription ids the registry may hand out
MaxSubs == 2
\* interrupt timers that may be pending on one chain
MaxTimers == 1
\* concurrent Subscribe calls per chain, and concurrent broadcasts per chain
ConcurrentSubs == 2
ConcurrentBroadcasts == 2
\* entries of one chain's ErrorConfigs list
MaxErrorConfigs == 2

(***************************************************************************)
(* Chains.  supportedChains is keyed by name; the WebSocket endpoints,     *)
(* the clock and the registry use the decimal chain id of chainIdToName;   *)
(* EVMChain.ChainID holds the hex id of chains.yaml.                       *)
(***************************************************************************)
supportedChains == {"ethereum", "optimism"}
Chains == supportedChains \cup {"solana"}
\* the chains whose clock runs and that the administrator addresses by name
ControlChains == {"ethereum", "solana"}

\* the key under which chainIdToName lists a chain name
chainIdToName(name) ==
    CASE name = "solana" -> "501"
      [] name = "optimism" -> "10"
      [] OTHER -> "1"

\* EVMChain.ChainID as loaded from chains.yaml
ChainID(name) == IF name = "optimism" THEN "0xa" ELSE "0x1"

\* the chain keys BroadcastNewBlock builds a header notification for
EVMBroadcastChains ==
    {"1", "10", "56", "100", "130", "137", "146", "250", "324", "8217",
     "8453", "42161", "43114", "59144"}

\* the offsets of the safe and the finalized block behind the latest one
SafeOffset == 32
FinalizedOffset == 64

\* the subscription methods a height broadcast selects
HeightMethods ==
    {"newHeads", "newHeadsWithTx", "logs", "slotNotification", "rootNotification"}

\* uint64(0) - 1
MaxUint64 == "18446744073709551615"

Nil == "nil"

(***************************************************************************)
(* Inputs.                                                                 *)
(***************************************************************************)
\* block numbers an administrator sets, per chain
SetBlockNumbers(c) == IF c = "solana" THEN {0, 5} ELSE {0, 31, 63}
\* reorg depths an administrator asks for, per chain
ReorgBlocks(c) == IF c = "solana" THEN {3, 150} ELSE {40, 150}
\* client connections
Conns == {"c1", "c2"}
\* chain ids a client connects to
ChainIds == {chainIdToName(c) : c \in Chains}
\* subscription kinds a client asks for
EthSubscriptionTypes == {"newHeads", "logs"}
SolanaSubscribeMethods == {"slotSubscribe", "rootSubscribe"}

\* the goroutines of the locking discipline: a height broadcast, a log
\* broadcast and DropAllConnections
LockThreads == {"BroadcastNewBlock", "BroadcastNewLog", "DropAllConnections"}

\* the TriggerReorg calls that run side by side, and one that has not begun
Reorgers == {"first", "second"}
NoReorger == [pc |-> "idle", currentBlock |-> 0, blocks |-> 0]

\* a request handler that has loaded nothing yet
NoReader == [pc |-> "idle", currentBlock |-> 0, fromBlock |-> 0, toBlock |-> 0]

VARIABLES
    BlockNumber,          \* EVMChain.BlockNumber / SolanaNode.SlotNumber, per chain
    SafeBlockNumber,      \* EVMChain.SafeBlockNumber, per EVM chain
    FinalizedBlockNumber, \* EVMChain.FinalizedBlockNumber, per EVM chain
    BlockIncrement,       \* 0 = normal, 1 = paused (SlotIncrement for Solana)
    BlockInterrupt,       \* 0 = normal, 1 = interrupted
    subscriptions,        \* SubscriptionManager.subscriptions: id -> Subscription
    nextSubID,            \* SubscriptionManager.nextSubID
    conns,                \* client connections: state (free, open, dead, closed), chain id
    writes,               \* notifications written to sinks by the last operation
    bcasts,               \* BroadcastNewBlock calls issued by the last operation
    last,                 \* the last operation: name, chain, argument, height before, result
    run,                  \* per chain: height at the last administrative change, ticks since
    issued,               \* ids returned by Subscribe, in call order
    unsubscribed,         \* ids an Unsubscribe call has removed
    resumeTimers,         \* per chain: pending timers that end an interrupt
    ErrorProbability,     \* EVMChain.ErrorProbability, per EVM chain, in tenths
    ErrorConfigs,         \* EVMChain.ErrorConfigs, per EVM chain
    CustomResponse,       \* EVMChain.CustomResponse*, per EVM chain
    goroutines,           \* goroutines of a concurrent run against one manager
    messages,             \* MockWSConn.messages, counted per subscription id
    connectionBlocked,    \* the flag new connections are refused under: 0 or 1
    blockTimers,          \* block durations that have not elapsed yet
    mu,                   \* SubscriptionManager.mu: the goroutine that holds it, or Nil
    writeMu,              \* wsConnWrapper.writeMu, per connection: its holder, or Nil
    threads,              \* goroutines that broadcast and drop: position, copy of subs
    ticker,               \* an incrementer between its atomic operations
    reader,               \* a request handler between its atomic loads
    sleepers,             \* goroutines asleep until they resume a chain, per chain
    reorgers              \* TriggerReorg calls between their load and their store

chainVars == <<BlockNumber, SafeBlockNumber, FinalizedBlockNumber,
               BlockIncrement, BlockInterrupt>>
regVars == <<subscriptions, nextSubID>>
faultVars == <<ErrorProbability, ErrorConfigs, CustomResponse>>
concVars == <<goroutines, messages>>
gateVars == <<connectionBlocked, blockTimers>>
lockVars == <<mu, writeMu, threads>>
tornVars == <<ticker, reader>>
raceVars == <<sleepers, reorgers>>
vars == <<BlockNumber, SafeBlockNumber, FinalizedBlockNumber, BlockIncrement,
          BlockInterrupt, subscriptions, nextSubID, conns, writes, bcasts, last,
          run, issued, unsubscribed, resumeTimers, ErrorProbability, ErrorConfigs,
          CustomResponse, goroutines, messages, connectionBlocked, blockTimers,
          mu, writeMu, threads, ticker, reader, sleepers, reorgers>>

(***************************************************************************)
(* Helpers.                                                                *)
(***************************************************************************)
Max(a, b) == IF a > b THEN a ELSE b

\* a function with one key removed / a set of keys removed
Without(f, S) == [k \in DOMAIN f \ S |-> f[k]]

\* variant: the snapshot written in an order the map iteration may produce
RECURSIVE IterationOrder(_)
IterationOrder(S) ==
    IF S = {} THEN <<>>
    ELSE LET m == CHOOSE x \in S : \A y \in S : x >= y
         IN <<m>> \o IterationOrder(S \ {m})

\* the elements of a finite set of numbers in ascending order (sort.Slice by ID)
RECURSIVE SortById(_)
SortById(S) ==
    IF S = {} THEN <<>>
    ELSE LET m == CHOOSE x \in S : \A y \in S : x <= y
         IN <<m>> \o SortById(S \ {m})

\* WriteMessage succeeds on a connection that is open
Writable(conn) == conns[conn].state = "open"

\* variant: a safe block computed one block short
SafeOfShort(newBlock) ==
    IF newBlock > SafeOffset THEN newBlock - SafeOffset - 1 ELSE 0

\* safe block for a new latest block (main: newBlock > 32)
SafeOf(newBlock) == IF newBlock > SafeOffset THEN newBlock - SafeOffset ELSE 0

\* finalized block for a new latest block (main: newBlock > 64)
FinalizedOf(newBlock) ==
    IF newBlock > FinalizedOffset THEN newBlock - FinalizedOffset ELSE 0

(***************************************************************************)
(* Number formatting.  Strings are sequences of characters.                *)
(***************************************************************************)
HexChars ==
    <<"0", "1", "2", "3", "4", "5", "6", "7", "8", "9", "a", "b", "c", "d", "e", "f">>

RECURSIVE HexDigits(_)
HexDigits(n) ==
    IF n < 16 THEN <<HexChars[n + 1]>>
    ELSE HexDigits(n \div 16) \o <<HexChars[(n % 16) + 1]>>

\* fmt.Sprintf("0x%x", n)
FmtHex(n) == <<"0", "x">> \o HexDigits(n)

(***************************************************************************)
(* SubscriptionManager.BroadcastNewBlock.                                  *)
(***************************************************************************)
\* variant: a snapshot that does not look at the chain of a subscription
SnapshotOfAllChains(chain) ==
    {id \in DOMAIN subscriptions : subscriptions[id].Method \in HeightMethods}

\* variant: a snapshot that leaves the logs subscriptions out
SnapshotWithoutLogs(chain) ==
    {id \in DOMAIN subscriptions :
        /\ subscriptions[id].Type = chain
        /\ subscriptions[id].Method \in HeightMethods \ {"logs"}}

\* the subscriptions copied under the read lock
Snapshot(chain) ==
    {id \in DOMAIN subscriptions :
        /\ subscriptions[id].Type = chain
        /\ subscriptions[id].Method \in HeightMethods}

\* root as a few blocks behind the current slot
\* variant: a root two slots behind
RootOfShallow(blockNumber) == IF blockNumber > 2 THEN blockNumber - 2 ELSE 0

RootOf(blockNumber) == IF blockNumber > 3 THEN blockNumber - 3 ELSE 0

\* blockNumber - 1 in uint64
ParentOf(blockNumber) == IF blockNumber = 0 THEN MaxUint64 ELSE blockNumber - 1

\* what the loop builds for a subscription it skips
NoNotification == [method |-> Nil]

\* the notification built for one subscription
Notification(chain, sub, blockNumber) ==
    IF chain \in EVMBroadcastChains
    THEN [conn |-> sub.Conn, id |-> sub.ID, method |-> "eth_subscription",
          subscription |-> FmtHex(sub.ID),
          result |-> [number |-> FmtHex(blockNumber),
                      withTx |-> (sub.Method = "newHeadsWithTx")]]
    ELSE IF chain = "501"
    THEN IF sub.Method = "slotNotification"
         THEN [conn |-> sub.Conn, id |-> sub.ID, method |-> "slotNotification",
               subscription |-> sub.ID,
               result |-> [parent |-> ParentOf(blockNumber),
                           root |-> RootOf(blockNumber),
                           slot |-> blockNumber]]
         ELSE IF sub.Method = "rootNotification" /\ RootOf(blockNumber) > 0
         THEN [conn |-> sub.Conn, id |-> sub.ID, method |-> "rootNotification",
               subscription |-> sub.ID,
               result |-> RootOf(blockNumber)]
         ELSE NoNotification
    ELSE NoNotification

\* the subscriptions of the snapshot a notification is built for, by ascending id
Notified(chain, blockNumber) ==
    LET keep(id) == Notification(chain, subscriptions[id], blockNumber).method # Nil
    IN SelectSeq(SortById(Snapshot(chain)), keep)

\* the notifications whose WriteMessage succeeds, in the order written
BroadcastWrites(chain, blockNumber) ==
    LET ok(id) == Writable(subscriptions[id].Conn)
        ids == SelectSeq(Notified(chain, blockNumber), ok)
    IN [i \in 1..Len(ids) |-> Notification(chain, subscriptions[ids[i]], blockNumber)]

\* variant: a broadcast that keeps the subscriptions whose write failed
BroadcastFailedKept(chain, blockNumber) == {}

\* the subscriptions whose WriteMessage fails and that are unsubscribed for it
BroadcastFailed(chain, blockNumber) ==
    LET ids == Notified(chain, blockNumber)
    IN {ids[i] : i \in {j \in 1..Len(ids) : ~Writable(subscriptions[ids[j]].Conn)}}

BroadcastNewBlock(chain, blockNumber) ==
    /\ writes' = BroadcastWrites(chain, blockNumber)
    /\ subscriptions' = Without(subscriptions, BroadcastFailed(chain, blockNumber))
    /\ bcasts' = <<[chain |-> chain, blockNumber |-> blockNumber,
                    failed |-> BroadcastFailed(chain, blockNumber)]>>

\* an operation that calls no broadcast
NoBroadcast ==
    /\ writes' = <<>>
    /\ bcasts' = <<>>
    /\ UNCHANGED subscriptions

\* the block number handleEVMRequest resolves a block tag to (eth_getBlockByNumber)
BlockByTag(c, tag) ==
    CASE tag \in {"latest", "pending"} -> BlockNumber[c]
      [] tag = "safe" -> SafeBlockNumber[c]
      [] tag = "finalized" -> FinalizedBlockNumber[c]
      [] tag = "earliest" -> 0

(***************************************************************************)
(* Goroutines that call one SubscriptionManager concurrently, all on one   *)
(* MockWSConn: Subscribe calls first, then, once they have all returned,   *)
(* BroadcastNewBlock calls.                                                *)
(***************************************************************************)
\* the chain keys of the concurrent run
ConcurrentChains == {"1", "501"}

SubscribeGoroutines ==
    {<<"Subscribe", chain, i>> : chain \in ConcurrentChains, i \in 1..ConcurrentSubs}
BroadcastGoroutines ==
    {<<"BroadcastNewBlock", chain, i>> :
        chain \in ConcurrentChains, i \in 1..ConcurrentBroadcasts}
Goroutines == SubscribeGoroutines \cup BroadcastGoroutines

\* the custom response of a chain that has none configured
NoCustomResponse == [Enabled |-> FALSE, Methods |-> {}, Response |-> Nil]

\* variant: an append that races with another and keeps one message only
DeliveredLost(msgs, id) ==
    [k \in DOMAIN msgs \cup {id} |-> IF k = id THEN 1 ELSE msgs[k]]

\* MockWSConn.WriteMessage on an open mock: one more message for the subscription
Delivered(msgs, id) ==
    [k \in DOMAIN msgs \cup {id} |->
        IF k # id THEN msgs[k] ELSE IF id \in DOMAIN msgs THEN msgs[id] + 1 ELSE 1]

\* numbers of subscriptions made and removed before the requests looked at
IdBases == {0, 8, 14}

\* the id counter is within MaxSubs of one of the bases
WithinIds == \E base \in IdBases : nextSubID >= base /\ nextSubID < base + MaxSubs

\* the ids that can be issued
IssuableIds == UNION {(base + 1)..(base + MaxSubs) : base \in IdBases}

(***************************************************************************)
(* Initial state: init() of the chain configuration and the empty registry.*)
(***************************************************************************)
\* the state after base subscriptions were made and removed and the clocks have
\* brought every chain to a height
InitAt(base, height) ==
    /\ BlockNumber = [c \in Chains |-> height]
    /\ SafeBlockNumber = [c \in supportedChains |-> SafeOf(height)]
    /\ FinalizedBlockNumber = [c \in supportedChains |-> FinalizedOf(height)]
    /\ BlockIncrement = [c \in Chains |-> 0]
    /\ BlockInterrupt = [c \in Chains |-> 0]
    /\ subscriptions = <<>>
    /\ nextSubID = base
    /\ conns = [c \in Conns |-> [state |-> "free", chainId |-> Nil]]
    /\ writes = <<>>
    /\ bcasts = <<>>
    /\ last = [op |-> "init", chain |-> Nil, arg |-> 0, pre |-> 0, ret |-> Nil]
    /\ run = [c \in Chains |-> [base |-> height, n |-> 0]]
    /\ issued = [i \in 1..base |-> i]
    /\ unsubscribed = 1..base
    /\ resumeTimers = [c \in Chains |-> 0]
    /\ ErrorProbability = [c \in supportedChains |-> 0]
    /\ ErrorConfigs = [c \in supportedChains |-> <<>>]
    /\ CustomResponse = [c \in supportedChains |-> NoCustomResponse]
    /\ goroutines = [g \in Goroutines |-> [pc |-> "ready", subs |-> <<>>]]
    /\ messages = <<>>
    /\ connectionBlocked = 0
    /\ blockTimers = 0
    /\ mu = Nil
    /\ writeMu = [c \in Conns |-> Nil]
    /\ threads = [t \in LockThreads |-> [pc |-> "ready", subs |-> <<>>]]
    /\ ticker = [pc |-> "idle", newBlock |-> 0]
    /\ reader = NoReader
    /\ sleepers = [c \in Chains |-> <<>>]
    /\ reorgers = [r \in Reorgers |-> NoReorger]

\* the chains start at block 1
InitAfter(base) == InitAt(base, 1)

\* heights at which a tick moves the safe or the finalized block
TornHeights == {32, 64}

\* the chains have ticked up to one of these heights
InitTorn == \E height \in TornHeights : InitAt(0, height)

\* the state after construction: no id has been issued
Init == InitAfter(0)

\* the registry after base subscriptions were made and removed again
InitIds == \E base \in IdBases : InitAfter(base)

(***************************************************************************)
(* The clock: one iteration of a chain's incrementer loop in main.         *)
(***************************************************************************)
\* the chain's height, safe and finalized block after a tick that advances
TickAdvance(c) ==
    LET newBlock == BlockNumber[c] + 1
    IN /\ BlockNumber' = [BlockNumber EXCEPT ![c] = newBlock]
       /\ IF c \in supportedChains
          THEN /\ SafeBlockNumber' = [SafeBlockNumber EXCEPT ![c] = SafeOf(newBlock)]
               /\ FinalizedBlockNumber' =
                      [FinalizedBlockNumber EXCEPT ![c] = FinalizedOf(newBlock)]
          ELSE UNCHANGED <<SafeBlockNumber, FinalizedBlockNumber>>
       /\ BroadcastNewBlock(chainIdToName(c), newBlock)
       /\ run' = [run EXCEPT ![c].n = @ + 1]

\* a tick that finds the chain interrupted or paused
TickSkip ==
    /\ UNCHANGED <<BlockNumber, SafeBlockNumber, FinalizedBlockNumber, run>>
    /\ NoBroadcast

\* variant: an incrementer that looks at the pause flag only
AdvancesUnlessPaused(c) == BlockIncrement[c] = 0

\* variant: an incrementer that looks at the interrupt flag only
AdvancesUnlessInterrupted(c) == BlockInterrupt[c] # 1

\* the incrementer advances when the chain is neither interrupted nor paused
Advances(c) == BlockInterrupt[c] # 1 /\ BlockIncrement[c] = 0

Tick(c) ==
    /\ UNCHANGED <<faultVars, concVars, gateVars, lockVars, tornVars, raceVars>>
    /\ Advances(c) => run[c].n < MaxTicks
    /\ IF Advances(c) THEN TickAdvance(c) ELSE TickSkip
    /\ last' = [op |-> "tick", chain |-> c, arg |-> 0, pre |-> BlockNumber[c],
                ret |-> Nil]
    /\ UNCHANGED <<BlockIncrement, BlockInterrupt, nextSubID, conns, issued,
                   unsubscribed, resumeTimers>>

(***************************************************************************)
(* Administrative control handlers.                                        *)
(***************************************************************************)
\* the chain key handleSetBlock broadcasts under
SetBlockKey(c) == IF c = "solana" THEN "501" ELSE c

\* handleSetBlock
SetBlock(c, n) ==
    /\ UNCHANGED <<faultVars, concVars, gateVars, lockVars, tornVars, raceVars>>
    /\ BlockNumber' = [BlockNumber EXCEPT ![c] = n]
    /\ BroadcastNewBlock(SetBlockKey(c), n)
    /\ run' = [run EXCEPT ![c] = [base |-> n, n |-> 0]]
    /\ last' = [op |-> "set", chain |-> c, arg |-> n, pre |-> BlockNumber[c],
                ret |-> Nil]
    /\ UNCHANGED <<SafeBlockNumber, FinalizedBlockNumber, BlockIncrement,
                   BlockInterrupt, nextSubID, conns, issued, unsubscribed,
                   resumeTimers>>

\* the chain key TriggerReorg broadcasts under
ReorgKey(c) == IF c = "solana" THEN "501" ELSE ChainID(c)

\* variant: a reorg that rolls back whatever the height
ReorgUnguarded(c, blocks) == TRUE

\* TriggerReorg rolls back when the chain is at least `blocks` high
ReorgApplies(c, blocks) == ~(BlockNumber[c] < blocks)

\* handleChainReorg and TriggerReorg
ChainReorg(c, blocks) ==
    /\ UNCHANGED <<faultVars, concVars, gateVars, lockVars, tornVars, raceVars>>
    /\ IF ReorgApplies(c, blocks)
       THEN /\ BlockNumber' = [BlockNumber EXCEPT ![c] = @ - blocks]
            /\ BroadcastNewBlock(ReorgKey(c), BlockNumber[c] - blocks)
            /\ run' = [run EXCEPT ![c] = [base |-> BlockNumber[c] - blocks, n |-> 0]]
       ELSE /\ UNCHANGED <<BlockNumber, run>>
            /\ NoBroadcast
    /\ last' = [op |-> "reorg", chain |-> c, arg |-> blocks, pre |-> BlockNumber[c],
                ret |-> Nil]
    /\ UNCHANGED <<SafeBlockNumber, FinalizedBlockNumber, BlockIncrement,
                   BlockInterrupt, nextSubID, conns, issued, unsubscribed,
                   resumeTimers>>

\* the chains a pause or resume request addresses ("" addresses all)
Addressed(chain) == IF chain = "" THEN Chains ELSE {chain}

\* handlePauseBlock
PauseBlock(chain) ==
    /\ UNCHANGED <<faultVars, concVars, gateVars, lockVars, tornVars, raceVars>>
    /\ BlockIncrement' = [c \in Chains |->
                             IF c \in Addressed(chain) THEN 1 ELSE BlockIncrement[c]]
    /\ NoBroadcast
    /\ last' = [op |-> "pause", chain |-> chain, arg |-> 0, pre |-> 0, ret |-> Nil]
    /\ UNCHANGED <<BlockNumber, SafeBlockNumber, FinalizedBlockNumber, BlockInterrupt,
                   nextSubID, conns, run, issued, unsubscribed, resumeTimers>>

\* handleResumeBlock
ResumeBlock(chain) ==
    /\ UNCHANGED <<faultVars, concVars, gateVars, lockVars, tornVars, raceVars>>
    /\ BlockIncrement' = [c \in Chains |->
                             IF c \in Addressed(chain) THEN 0 ELSE BlockIncrement[c]]
    /\ NoBroadcast
    /\ last' = [op |-> "resume", chain |-> chain, arg |-> 0, pre |-> 0, ret |-> Nil]
    /\ UNCHANGED <<BlockNumber, SafeBlockNumber, FinalizedBlockNumber, BlockInterrupt,
                   nextSubID, conns, run, issued, unsubscribed, resumeTimers>>

\* handleInterruptBlocks: InterruptBlocks and a timer that resumes later
InterruptBlocks(c) ==
    /\ UNCHANGED <<faultVars, concVars, gateVars, lockVars, tornVars, raceVars>>
    /\ resumeTimers[c] < MaxTimers
    /\ BlockInterrupt' = [BlockInterrupt EXCEPT ![c] = 1]
    /\ resumeTimers' = [resumeTimers EXCEPT ![c] = @ + 1]
    /\ NoBroadcast
    /\ last' = [op |-> "interrupt", chain |-> c, arg |-> 0, pre |-> 0, ret |-> Nil]
    /\ UNCHANGED <<BlockNumber, SafeBlockNumber, FinalizedBlockNumber, BlockIncrement,
                   nextSubID, conns, run, issued, unsubscribed>>

\* variant: a timer that expires without resuming the chain
ResumeBlocksNever(c) ==
    /\ UNCHANGED <<faultVars, concVars, gateVars, lockVars, tornVars, raceVars>>
    /\ resumeTimers[c] > 0
    /\ UNCHANGED BlockInterrupt
    /\ resumeTimers' = [resumeTimers EXCEPT ![c] = @ - 1]
    /\ NoBroadcast
    /\ last' = [op |-> "uninterrupt", chain |-> c, arg |-> 0, pre |-> 0, ret |-> Nil]
    /\ UNCHANGED <<BlockNumber, SafeBlockNumber, FinalizedBlockNumber, BlockIncrement,
                   nextSubID, conns, run, issued, unsubscribed>>

\* the timer of handleInterruptBlocks expires: ResumeBlocks
ResumeBlocks(c) ==
    /\ UNCHANGED <<faultVars, concVars, gateVars, lockVars, tornVars, raceVars>>
    /\ resumeTimers[c] > 0
    /\ BlockInterrupt' = [BlockInterrupt EXCEPT ![c] = 0]
    /\ resumeTimers' = [resumeTimers EXCEPT ![c] = @ - 1]
    /\ NoBroadcast
    /\ last' = [op |-> "uninterrupt", chain |-> c, arg |-> 0, pre |-> 0, ret |-> Nil]
    /\ UNCHANGED <<BlockNumber, SafeBlockNumber, FinalizedBlockNumber, BlockIncrement,
                   nextSubID, conns, run, issued, unsubscribed>>

\* the clock and the control handlers of the chains
NextChain ==
    \/ \E c \in ControlChains : Tick(c)
    \/ \E c \in ControlChains : \E n \in SetBlockNumbers(c) : SetBlock(c, n)
    \/ \E c \in ControlChains : \E k \in ReorgBlocks(c) : ChainReorg(c, k)
    \/ \E chain \in ControlChains \cup {""} : PauseBlock(chain)
    \/ \E chain \in ControlChains \cup {""} : ResumeBlock(chain)
    \/ \E c \in ControlChains : InterruptBlocks(c)
    \/ \E c \in ControlChains : ResumeBlocks(c)

SpecChain == Init /\ [][NextChain]_vars

\* the clocks, set-block and reorg on one chain, and the controls that stop
\* and restart the clocks
NextClock ==
    \/ \E c \in ControlChains : Tick(c)
    \/ \E n \in SetBlockNumbers("ethereum") : SetBlock("ethereum", n)
    \/ \E k \in ReorgBlocks("ethereum") : ChainReorg("ethereum", k)
    \/ \E chain \in ControlChains \cup {""} : PauseBlock(chain)
    \/ \E chain \in ControlChains \cup {""} : ResumeBlock(chain)
    \/ \E c \in ControlChains : InterruptBlocks(c)
    \/ \E c \in ControlChains : ResumeBlocks(c)

SpecClock == Init /\ [][NextClock]_vars

\* the clock of the chains, their pause flags, and interrupts with their timers
NextInterrupt ==
    \/ \E c \in ControlChains : Tick(c)
    \/ \E c \in ControlChains : PauseBlock(c)
    \/ \E c \in ControlChains : ResumeBlock(c)
    \/ \E c \in ControlChains : InterruptBlocks(c)
    \/ \E c \in ControlChains : ResumeBlocks(c)

SpecInterrupt == Init /\ [][NextInterrupt]_vars

\* the goroutine that sleeps in handleInterruptBlocks is scheduled when its
\* sleep is over
SpecInterruptFair ==
    /\ SpecInterrupt
    /\ \A c \in ControlChains : WF_resumeTimers(ResumeBlocks(c))

(***************************************************************************)
(* SubscriptionManager: Subscribe, Unsubscribe, CleanupConnection,         *)
(* DropAllConnections.                                                     *)
(***************************************************************************)
\* variant: ids handed out by the size of the registry
NewSubIDBySize == Cardinality(DOMAIN subscriptions) + 1

\* atomic.AddUint64(&sm.nextSubID, 1)
NewSubID == nextSubID + 1

Subscribe(subType, conn, method) ==
    /\ nextSubID' = NewSubID
    /\ subscriptions' =
           [id \in DOMAIN subscriptions \cup {NewSubID} |->
               IF id = NewSubID
               THEN [ID |-> NewSubID, Type |-> subType, Conn |-> conn, Method |-> method]
               ELSE subscriptions[id]]
    /\ issued' = Append(issued, NewSubID)

\* Unsubscribe finds the id in the registry
Exists(id) == id \in DOMAIN subscriptions

\* variant: an Unsubscribe that deletes nothing
UnsubscribedNothing(id) == subscriptions

\* the registry after Unsubscribe(id)
Unsubscribed(id) == IF Exists(id) THEN Without(subscriptions, {id}) ELSE subscriptions

Unsubscribe(id) ==
    /\ subscriptions' = Unsubscribed(id)
    /\ unsubscribed' = IF Exists(id) THEN unsubscribed \cup {id} ELSE unsubscribed

\* variant: a cleanup that stops at the first subscription of the connection
CleanupFirstId(conn) ==
    {id \in DOMAIN subscriptions :
        /\ subscriptions[id].Conn = conn
        /\ \A j \in DOMAIN subscriptions : subscriptions[j].Conn = conn => id <= j}

\* the subscriptions CleanupConnection deletes
CleanupIds(conn) == {id \in DOMAIN subscriptions : subscriptions[id].Conn = conn}

\* the connections DropAllConnections closes
DroppedConns == {subscriptions[id].Conn : id \in DOMAIN subscriptions}

(***************************************************************************)
(* Client connections: handleChainWebSocket.                               *)
(***************************************************************************)
\* variant: a gate that refuses no connection
IsBlockedNever == FALSE

\* IsBlocked: new connections are refused
IsBlocked == connectionBlocked = 1

\* a client connects to /ws/chain/<chainId>: refused with 503 while connections
\* are blocked, upgraded otherwise
Connect(conn, chainId) ==
    /\ UNCHANGED <<faultVars, concVars, gateVars, lockVars, tornVars, raceVars>>
    /\ conns[conn].state = "free"
    /\ IF IsBlocked
       THEN /\ UNCHANGED conns
            /\ last' = [op |-> "refused", chain |-> chainId, arg |-> conn, pre |-> 0,
                        ret |-> 503]
       ELSE /\ conns' = [conns EXCEPT ![conn] = [state |-> "open", chainId |-> chainId]]
            /\ last' = [op |-> "connect", chain |-> chainId, arg |-> conn, pre |-> 0,
                        ret |-> Nil]
    /\ NoBroadcast
    /\ UNCHANGED <<chainVars, nextSubID, run, issued, unsubscribed, resumeTimers>>

\* the peer goes away: from now on WriteMessage on the connection fails, and the
\* read loop has yet to return
PeerGone(conn) ==
    /\ UNCHANGED <<faultVars, concVars, gateVars, lockVars, tornVars, raceVars>>
    /\ conns[conn].state = "open"
    /\ conns' = [conns EXCEPT ![conn].state = "dead"]
    /\ NoBroadcast
    /\ last' = [op |-> "gone", chain |-> conns[conn].chainId, arg |-> conn, pre |-> 0,
                ret |-> Nil]
    /\ UNCHANGED <<chainVars, nextSubID, run, issued, unsubscribed, resumeTimers>>

\* ReadMessage fails and the deferred cleanup runs: CleanupConnection, Close
Disconnect(conn) ==
    /\ UNCHANGED <<faultVars, concVars, gateVars, lockVars, tornVars, raceVars>>
    /\ conns[conn].state \in {"open", "dead"}
    /\ subscriptions' = Without(subscriptions, CleanupIds(conn))
    /\ conns' = [conns EXCEPT ![conn] = [state |-> "closed", chainId |-> Nil]]
    /\ writes' = <<>>
    /\ bcasts' = <<>>
    /\ last' = [op |-> "cleanup", chain |-> conns[conn].chainId, arg |-> conn,
                pre |-> 0, ret |-> Cardinality(CleanupIds(conn))]
    /\ UNCHANGED <<chainVars, nextSubID, run, issued, unsubscribed, resumeTimers>>

(***************************************************************************)
(* Requests on a connection: handleEVMRequest and handleSolanaRequest.     *)
(***************************************************************************)
\* the connection's read loop hands a message to the EVM handler
ServesEVM(conn) ==
    /\ conns[conn].state = "open"
    /\ \E c \in supportedChains : chainIdToName(c) = conns[conn].chainId

\* the connection's read loop hands a message to the Solana handler
ServesSolana(conn) ==
    /\ conns[conn].state = "open"
    /\ conns[conn].chainId = "501"

\* the response to an unsubscribe request for a parsed id
UnsubscribeResponse(id) ==
    IF Exists(id) THEN [result |-> TRUE, error |-> 0]
    ELSE [result |-> Nil, error |-> -32603]

\* eth_subscribe with params [subscriptionType]
EthSubscribe(conn, subscriptionType) ==
    /\ UNCHANGED <<faultVars, concVars, gateVars, lockVars, tornVars, raceVars>>
    /\ ServesEVM(conn)
    /\ WithinIds
    /\ Subscribe(conns[conn].chainId, conn, subscriptionType)
    /\ writes' = <<>>
    /\ bcasts' = <<>>
    /\ last' = [op |-> "eth_subscribe", chain |-> conns[conn].chainId, arg |-> conn,
                pre |-> 0, ret |-> [result |-> FmtHex(NewSubID), error |-> 0]]
    /\ UNCHANGED <<chainVars, conns, run, unsubscribed, resumeTimers>>

\* eth_unsubscribe with params [id], the id a JSON number
EthUnsubscribe(conn, id) ==
    /\ UNCHANGED <<faultVars, concVars, gateVars, lockVars, tornVars, raceVars>>
    /\ ServesEVM(conn)
    /\ Unsubscribe(id)
    /\ writes' = <<>>
    /\ bcasts' = <<>>
    /\ last' = [op |-> "eth_unsubscribe", chain |-> conns[conn].chainId, arg |-> id,
                pre |-> 0, ret |-> UnsubscribeResponse(id)]
    /\ UNCHANGED <<chainVars, nextSubID, conns, run, issued, resumeTimers>>

\* the subscription method a Solana subscribe request registers
SolanaMethod(method) ==
    IF method = "slotSubscribe" THEN "slotNotification" ELSE "rootNotification"

\* slotSubscribe and rootSubscribe
SolanaSubscribe(conn, method) ==
    /\ UNCHANGED <<faultVars, concVars, gateVars, lockVars, tornVars, raceVars>>
    /\ ServesSolana(conn)
    /\ WithinIds
    /\ Subscribe("501", conn, SolanaMethod(method))
    /\ writes' = <<>>
    /\ bcasts' = <<>>
    /\ last' = [op |-> method, chain |-> "501", arg |-> conn, pre |-> 0,
                ret |-> [result |-> NewSubID, error |-> 0]]
    /\ UNCHANGED <<chainVars, conns, run, unsubscribed, resumeTimers>>

\* slotUnsubscribe and rootUnsubscribe with params [id], the id a JSON number
SolanaUnsubscribe(conn, id) ==
    /\ UNCHANGED <<faultVars, concVars, gateVars, lockVars, tornVars, raceVars>>
    /\ ServesSolana(conn)
    /\ Unsubscribe(id)
    /\ writes' = <<>>
    /\ bcasts' = <<>>
    /\ last' = [op |-> "slotUnsubscribe", chain |-> "501", arg |-> id, pre |-> 0,
                ret |-> UnsubscribeResponse(id)]
    /\ UNCHANGED <<chainVars, nextSubID, conns, run, issued, resumeTimers>>

\* handleDropConnections without a block duration: DropAllConnections
DropConnections ==
    /\ UNCHANGED <<faultVars, concVars, gateVars, lockVars, tornVars, raceVars>>
    /\ conns' = [c \in Conns |->
                    IF c \in DroppedConns
                    THEN [conns[c] EXCEPT !.state = "dead"]
                    ELSE conns[c]]
    /\ subscriptions' = <<>>
    /\ writes' = <<>>
    /\ bcasts' = <<>>
    /\ last' = [op |-> "drop", chain |-> Nil, arg |-> 0, pre |-> 0,
                ret |-> Cardinality(DOMAIN subscriptions)]
    /\ UNCHANGED <<chainVars, nextSubID, run, issued, unsubscribed, resumeTimers>>

\* block durations of a drop request, in seconds
BlockDurations == {1, 30}

\* BlockConnections(d): new connections are refused until d has elapsed
BlockConnections(d) ==
    /\ connectionBlocked' = 1
    /\ blockTimers' = blockTimers + 1

\* handleDropConnections with a block duration above 0: DropAllConnections, then
\* BlockConnections
DropConnectionsAndBlock(d) ==
    /\ UNCHANGED <<faultVars, concVars, lockVars, tornVars, raceVars>>
    /\ blockTimers < MaxTimers
    /\ conns' = [c \in Conns |->
                    IF c \in DroppedConns
                    THEN [conns[c] EXCEPT !.state = "dead"]
                    ELSE conns[c]]
    /\ subscriptions' = <<>>
    /\ BlockConnections(d)
    /\ writes' = <<>>
    /\ bcasts' = <<>>
    /\ last' = [op |-> "drop", chain |-> Nil, arg |-> d, pre |-> 0,
                ret |-> Cardinality(DOMAIN subscriptions)]
    /\ UNCHANGED <<chainVars, nextSubID, run, issued, unsubscribed, resumeTimers>>

\* a block duration has elapsed: connections are accepted again once the last
\* one has
BlockElapsed ==
    /\ UNCHANGED <<faultVars, concVars, lockVars, tornVars, raceVars>>
    /\ blockTimers > 0
    /\ blockTimers' = blockTimers - 1
    /\ connectionBlocked' = IF blockTimers = 1 THEN 0 ELSE 1
    /\ NoBroadcast
    /\ last' = [op |-> "elapsed", chain |-> Nil, arg |-> 0, pre |-> 0, ret |-> Nil]
    /\ UNCHANGED <<chainVars, nextSubID, conns, run, issued, unsubscribed,
                   resumeTimers>>

\* clients that connect, subscribe and disconnect while an administrator drops
\* the connections, with and without a block duration
NextGate ==
    \/ \E conn \in Conns : \E chainId \in ChainIds : Connect(conn, chainId)
    \/ \E conn \in Conns : Disconnect(conn)
    \/ \E conn \in Conns : EthSubscribe(conn, "newHeads")
    \/ DropConnections
    \/ \E d \in BlockDurations : DropConnectionsAndBlock(d)
    \/ BlockElapsed

SpecGate == Init /\ [][NextGate]_vars

\* the connections, the requests on them and the drop-all control handler
NextRegistry ==
    \/ \E conn \in Conns : \E chainId \in ChainIds : Connect(conn, chainId)
    \/ \E conn \in Conns : PeerGone(conn)
    \/ \E conn \in Conns : Disconnect(conn)
    \/ \E conn \in Conns : \E t \in EthSubscriptionTypes : EthSubscribe(conn, t)
    \/ \E conn \in Conns : \E id \in 1..MaxSubs : EthUnsubscribe(conn, id)
    \/ \E conn \in Conns : \E m \in SolanaSubscribeMethods : SolanaSubscribe(conn, m)
    \/ \E conn \in Conns : \E id \in 1..MaxSubs : SolanaUnsubscribe(conn, id)
    \/ DropConnections

\* the MockWSConn handleChainHTTP creates for a request
mockConn == "mock"

\* eth_subscribe posted to /chain/<chainId>: handleChainHTTP hands the request to
\* handleEVMRequest with a new MockWSConn
HTTPSubscribe(chainId, subscriptionType) ==
    /\ UNCHANGED <<faultVars, concVars, gateVars, lockVars, tornVars, raceVars>>
    /\ \E c \in supportedChains : chainIdToName(c) = chainId
    /\ WithinIds
    /\ Subscribe(chainId, mockConn, subscriptionType)
    /\ writes' = <<>>
    /\ bcasts' = <<>>
    /\ last' = [op |-> "http_eth_subscribe", chain |-> chainId, arg |-> mockConn,
                pre |-> 0, ret |-> [result |-> FmtHex(NewSubID), error |-> 0]]
    /\ UNCHANGED <<chainVars, conns, run, unsubscribed, resumeTimers>>

\* clients of one chain on WebSocket connections and on the HTTP endpoint
NextHTTP ==
    \/ \E conn \in Conns : Connect(conn, "1")
    \/ \E conn \in Conns : PeerGone(conn)
    \/ \E conn \in Conns : Disconnect(conn)
    \/ \E conn \in Conns : \E t \in EthSubscriptionTypes : EthSubscribe(conn, t)
    \/ \E t \in EthSubscriptionTypes : HTTPSubscribe("1", t)

SpecHTTP == Init /\ [][NextHTTP]_vars

\* the connection whose unsubscribe requests are followed
Requester == "c2"

\* clients of every chain that subscribe, and one of them that unsubscribes
NextOwner ==
    \/ \E conn \in Conns : \E chainId \in ChainIds : Connect(conn, chainId)
    \/ \E conn \in Conns : \E t \in EthSubscriptionTypes : EthSubscribe(conn, t)
    \/ \E conn \in Conns : \E m \in SolanaSubscribeMethods : SolanaSubscribe(conn, m)
    \/ \E id \in 1..MaxSubs : EthUnsubscribe(Requester, id)
    \/ \E id \in 1..MaxSubs : SolanaUnsubscribe(Requester, id)

SpecOwner == Init /\ [][NextOwner]_vars

\* block numbers and reorg depths of the runs that follow the broadcasts
BroadcastBlockNumbers(c) == IF c = "solana" THEN {0, 6} ELSE {5}
BroadcastReorgBlocks(c) == IF c = "solana" THEN {3} ELSE {2}

\* the registry together with the operations that broadcast a height
NextBroadcast ==
    \/ NextRegistry
    \/ \E c \in ControlChains : \E n \in BroadcastBlockNumbers(c) : SetBlock(c, n)
    \/ \E c \in ControlChains : \E k \in BroadcastReorgBlocks(c) : ChainReorg(c, k)

SpecBroadcast == Init /\ [][NextBroadcast]_vars

\* the registry, the connections and the clock that broadcasts to them
NextRegistryClock ==
    \/ NextRegistry
    \/ \E c \in ControlChains : Tick(c)

SpecRegistry == Init /\ [][NextRegistryClock]_vars

\* slots an administrator sets so that root notifications are due
DeliverySlots == {6}

\* the registry, the clock and a Solana slot high enough for root notifications
NextDelivery ==
    \/ NextRegistryClock
    \/ \E n \in DeliverySlots : SetBlock("solana", n)

SpecDelivery == Init /\ [][NextDelivery]_vars

(***************************************************************************)
(* The steps of the concurrent goroutines.  Subscribe runs under the       *)
(* manager's lock; BroadcastNewBlock copies and sorts the subscriptions    *)
(* under the read lock and then writes outside it, one message at a time.  *)
(***************************************************************************)
\* a step of the concurrent run leaves the rest of the system alone
ConcurrentFrame ==
    /\ last' = [op |-> "go", chain |-> Nil, arg |-> 0, pre |-> 0, ret |-> Nil]
    /\ UNCHANGED <<chainVars, conns, writes, bcasts, run, unsubscribed, resumeTimers,
                   faultVars, gateVars, lockVars, tornVars, raceVars>>

\* the method the concurrent run subscribes with on a chain
ConcurrentMethod(chain) == IF chain = "501" THEN "slotNotification" ELSE "newHeads"

\* go sm.Subscribe(chain, conn, method)
GoSubscribe(g) ==
    /\ g \in SubscribeGoroutines
    /\ goroutines[g].pc = "ready"
    /\ Subscribe(g[2], "mock", ConcurrentMethod(g[2]))
    /\ goroutines' = [goroutines EXCEPT ![g].pc = "done"]
    /\ UNCHANGED messages
    /\ ConcurrentFrame

\* wg.Wait(): every Subscribe goroutine has returned
Subscribed == \A g \in SubscribeGoroutines : goroutines[g].pc = "done"

\* go sm.BroadcastNewBlock(chain, i): the copy under the read lock and the sort
GoSnapshot(g) ==
    /\ g \in BroadcastGoroutines
    /\ Subscribed
    /\ goroutines[g].pc = "ready"
    /\ goroutines' =
           [goroutines EXCEPT ![g] =
               [pc |-> IF Snapshot(g[2]) = {} THEN "done" ELSE "writing",
                subs |-> SortById(Snapshot(g[2]))]]
    /\ UNCHANGED <<regVars, issued, messages>>
    /\ ConcurrentFrame

\* the broadcast writes the notification of the next subscription of its copy
GoWrite(g) ==
    /\ g \in BroadcastGoroutines
    /\ goroutines[g].pc = "writing"
    /\ LET id == Head(goroutines[g].subs)
           rest == Tail(goroutines[g].subs)
           n == Notification(g[2], subscriptions[id], g[3] - 1)
       IN /\ messages' = IF n.method # Nil THEN Delivered(messages, id) ELSE messages
          /\ goroutines' =
                 [goroutines EXCEPT ![g] =
                     [pc |-> IF rest = <<>> THEN "done" ELSE "writing", subs |-> rest]]
    /\ UNCHANGED <<regVars, issued>>
    /\ ConcurrentFrame

NextConcurrent ==
    \/ \E g \in SubscribeGoroutines : GoSubscribe(g)
    \/ \E g \in BroadcastGoroutines : GoSnapshot(g)
    \/ \E g \in BroadcastGoroutines : GoWrite(g)

SpecConcurrent == Init /\ [][NextConcurrent]_vars

(***************************************************************************)
(* Fault injection.  Probabilities and rolls of rand.Float64() are counted *)
(* in tenths, so 3 stands for 0.3; sums of tenths are exact, as the sums   *)
(* of the probabilities used here are in float64 comparisons.              *)
(***************************************************************************)
\* the chain whose faults are configured
FaultChains == {"ethereum"}
\* values of POST /control/chain/error-probability
ErrorProbabilityInputs == {0, 3}
\* values of rand.Float64(), which lies in [0, 1), in ShouldSimulateError
Rolls == {0, 2, 5, 9}
\* values of rand.Float64() in the legacy check
LegacyRolls == {2, 5}
\* bodies of POST /control/errors/add
ErrorConfigInputs ==
    {[Code |-> -32005, Message |-> "limit exceeded", Probability |-> 3, Methods |-> {}],
     [Code |-> -32001, Message |-> "resource not found", Probability |-> 3,
      Methods |-> {"eth_subscribe"}],
     [Code |-> -32002, Message |-> "resource unavailable", Probability |-> 0,
      Methods |-> {}]}
\* bodies of POST /control/response/custom
CustomResponseInputs ==
    {NoCustomResponse,
     [Enabled |-> TRUE, Methods |-> {}, Response |-> "{\"stub\":true}"],
     [Enabled |-> TRUE, Methods |-> {"eth_subscribe"}, Response |-> "\"0xstub\""]}

\* ShouldSimulateError returns nil
NoError == [Code |-> 0, Message |-> Nil, Probability |-> 0, Methods |-> {}]

\* variant: every entry applies, whatever its method list
ApplicableToAll(errorConfigs, method) == errorConfigs

\* the entries whose Methods is empty or contains the method, in list order
Applicable(errorConfigs, method) ==
    SelectSeq(errorConfigs, LAMBDA e : e.Methods = {} \/ method \in e.Methods)

\* the sum of the probabilities of the first i entries
RECURSIVE Cumulative(_, _)
Cumulative(errors, i) ==
    IF i = 0 THEN 0 ELSE Cumulative(errors, i - 1) + errors[i].Probability

ShouldSimulateError(errorConfigs, method, roll) ==
    LET applicableErrors == Applicable(errorConfigs, method)
        totalProb == Cumulative(applicableErrors, Len(applicableErrors))
        hits == {i \in 1..Len(applicableErrors) : roll <= Cumulative(applicableErrors, i)}
    IN IF Len(errorConfigs) = 0 THEN NoError
       ELSE IF Len(applicableErrors) = 0 THEN NoError
       ELSE IF totalProb = 0 THEN NoError
       ELSE IF roll > totalProb THEN NoError
       ELSE IF hits # {}
            THEN applicableErrors[CHOOSE i \in hits : \A j \in hits : i <= j]
       ELSE applicableErrors[Len(applicableErrors)]

\* POST /control/chain/error-probability
SetErrorProbability(c, p) ==
    /\ c \in supportedChains
    /\ p >= 0 /\ p <= 10
    /\ ErrorProbability' = [ErrorProbability EXCEPT ![c] = p]
    /\ NoBroadcast
    /\ last' = [op |-> "error_probability", chain |-> c, arg |-> p, pre |-> 0, ret |-> Nil]
    /\ UNCHANGED <<chainVars, regVars, conns, run, issued, unsubscribed, resumeTimers,
                   ErrorConfigs, CustomResponse, concVars, gateVars, lockVars, tornVars, raceVars>>

\* POST /control/errors/add
AddErrorConfig(c, e) ==
    /\ c \in supportedChains
    /\ e.Probability >= 0 /\ e.Probability <= 10
    /\ Len(ErrorConfigs[c]) < MaxErrorConfigs
    /\ ErrorConfigs' = [ErrorConfigs EXCEPT ![c] = Append(@, e)]
    /\ NoBroadcast
    /\ last' = [op |-> "errors_add", chain |-> c, arg |-> e.Code, pre |-> 0, ret |-> Nil]
    /\ UNCHANGED <<chainVars, regVars, conns, run, issued, unsubscribed, resumeTimers,
                   ErrorProbability, CustomResponse, concVars, gateVars, lockVars, tornVars, raceVars>>

\* POST /control/errors/remove, index counted from 0
RemoveErrorConfig(c, index) ==
    /\ c \in supportedChains
    /\ index >= 0 /\ index < Len(ErrorConfigs[c])
    /\ ErrorConfigs' =
           [ErrorConfigs EXCEPT ![c] =
               SubSeq(@, 1, index) \o SubSeq(@, index + 2, Len(@))]
    /\ NoBroadcast
    /\ last' = [op |-> "errors_remove", chain |-> c, arg |-> index, pre |-> 0, ret |-> Nil]
    /\ UNCHANGED <<chainVars, regVars, conns, run, issued, unsubscribed, resumeTimers,
                   ErrorProbability, CustomResponse, concVars, gateVars, lockVars, tornVars, raceVars>>

\* POST /control/errors/clear
ClearErrorConfigs(c) ==
    /\ c \in supportedChains
    /\ ErrorConfigs' = [ErrorConfigs EXCEPT ![c] = <<>>]
    /\ NoBroadcast
    /\ last' = [op |-> "errors_clear", chain |-> c, arg |-> 0, pre |-> 0, ret |-> Nil]
    /\ UNCHANGED <<chainVars, regVars, conns, run, issued, unsubscribed, resumeTimers,
                   ErrorProbability, CustomResponse, concVars, gateVars, lockVars, tornVars, raceVars>>

\* POST /control/response/custom; the stored text is valid JSON
SetCustomResponse(c, custom) ==
    /\ c \in supportedChains
    /\ CustomResponse' = [CustomResponse EXCEPT ![c] = custom]
    /\ NoBroadcast
    /\ last' = [op |-> "response_custom", chain |-> c, arg |-> 0, pre |-> 0, ret |-> Nil]
    /\ UNCHANGED <<chainVars, regVars, conns, run, issued, unsubscribed, resumeTimers,
                   ErrorProbability, ErrorConfigs, concVars, gateVars, lockVars, tornVars, raceVars>>

(***************************************************************************)
(* The EVM request handler with its fault injection.                       *)
(***************************************************************************)
\* the chain a chain id names
ChainOf(chainId) == CHOOSE c \in supportedChains : chainIdToName(c) = chainId

\* variant: an override with an empty method list matches no method
CustomResponseListed(c, method) ==
    CustomResponse[c].Enabled /\ method \in CustomResponse[c].Methods

\* the custom response override of the chain is enabled and matches the method
CustomResponseApplies(c, method) ==
    /\ CustomResponse[c].Enabled
    /\ CustomResponse[c].Methods = {} \/ method \in CustomResponse[c].Methods

\* the legacy error probability fails the request
LegacyError(c, legacyRoll) ==
    ErrorProbability[c] > 0 /\ legacyRoll < ErrorProbability[c]

\* what answers the request: the override, the legacy probability, the
\* ErrorConfig entry selected, or the method's own handling
Source(c, method, legacyRoll, selected) ==
    IF CustomResponseApplies(c, method) THEN "custom"
    ELSE IF LegacyError(c, legacyRoll) THEN "legacy"
    ELSE IF selected # NoError THEN "config"
    ELSE "handler"

\* variant: the handler goes on to the method after building the response
ShortCircuitsNever(source) == FALSE

\* the handler returns before the switch on the method
ShortCircuits(source) == source # "handler"

(***************************************************************************)
(* eth_getLogs.  Block parameters are strings, sequences of characters.    *)
(***************************************************************************)
TagLatest == <<"l", "a", "t", "e", "s", "t">>
TagPending == <<"p", "e", "n", "d", "i", "n", "g">>
TagSafe == <<"s", "a", "f", "e">>
TagFinalized == <<"f", "i", "n", "a", "l", "i", "z", "e", "d">>
TagEarliest == <<"e", "a", "r", "l", "i", "e", "s", "t">>

\* fromBlock and toBlock values of the filters clients send
BlockParams ==
    {TagLatest, TagSafe, TagFinalized, TagEarliest,
     <<"0", "x", "1">>, <<"0", "x", "2", "0">>, <<"0", "x", "F", "F">>,
     <<"2", "0">>, <<"0", "x">>}

\* the filter objects clients send: each of fromBlock and toBlock may be absent
Filters == UNION {[keys -> BlockParams] : keys \in SUBSET {"fromBlock", "toBlock"}}

UpperHexChars == <<"A", "B", "C", "D", "E", "F">>

\* the value of a hexadecimal digit, -1 for any other character
DigitValue(ch) ==
    IF \E i \in 1..16 : HexChars[i] = ch
    THEN (CHOOSE i \in 1..16 : HexChars[i] = ch) - 1
    ELSE IF \E i \in 1..6 : UpperHexChars[i] = ch
    THEN (CHOOSE i \in 1..6 : UpperHexChars[i] = ch) + 9
    ELSE -1

\* a string without its leading zeros
RECURSIVE Significant(_)
Significant(str) ==
    IF str # <<>> /\ Head(str) = "0" THEN Significant(Tail(str)) ELSE str

RECURSIVE DigitsValue(_)
DigitsValue(str) ==
    IF str = <<>> THEN 0
    ELSE 16 * DigitsValue(SubSeq(str, 1, Len(str) - 1)) + DigitValue(str[Len(str)])

\* strconv.ParseUint(str, 16, 64); -1 stands for an error
ParseUint(str) ==
    IF str = <<>> THEN -1
    ELSE IF \E i \in 1..Len(str) : DigitValue(str[i]) = -1 THEN -1
    ELSE IF Len(Significant(str)) > 16 THEN -1
    ELSE DigitsValue(str)

\* the block number of a fromBlock or toBlock string; -1 stands for an error
ParseBlock(c, str) ==
    CASE str = TagLatest \/ str = TagPending -> BlockNumber[c]
      [] str = TagSafe -> SafeBlockNumber[c]
      [] str = TagFinalized -> FinalizedBlockNumber[c]
      [] str = TagEarliest -> 0
      [] OTHER ->
             IF Len(str) > 2 /\ SubSeq(str, 1, 2) = <<"0", "x">>
             THEN ParseUint(SubSeq(str, 3, Len(str)))
             ELSE ParseUint(str)

\* variant: a range check that does not look at the current block
InvalidBlockRangeOrdered(fromBlock, toBlock, currentBlock) == fromBlock > toBlock

\* the block range eth_getLogs rejects
InvalidBlockRange(fromBlock, toBlock, currentBlock) ==
    toBlock > currentBlock \/ fromBlock > toBlock

\* the response of eth_getLogs to a filter object
GetLogsResponse(c, filterObj) ==
    LET currentBlock == BlockNumber[c]
        fromBlock == IF "fromBlock" \in DOMAIN filterObj
                     THEN ParseBlock(c, filterObj["fromBlock"]) ELSE 0
        toBlock == IF "toBlock" \in DOMAIN filterObj
                   THEN ParseBlock(c, filterObj["toBlock"]) ELSE currentBlock
    IN IF fromBlock = -1 \/ toBlock = -1 THEN [result |-> Nil, error |-> -32602]
       ELSE IF InvalidBlockRange(fromBlock, toBlock, currentBlock)
            THEN [result |-> Nil, error |-> -32000]
       ELSE [result |-> <<>>, error |-> 0]

\* the response of the switch on the method
DispatchResponse(conn, method, params) ==
    CASE method = "eth_subscribe" ->
             IF Len(params) < 1 THEN [result |-> Nil, error |-> -32602]
             ELSE IF params[1] \notin EthSubscriptionTypes
                  THEN [result |-> Nil, error |-> -32601]
             ELSE [result |-> FmtHex(NewSubID), error |-> 0]
      [] method = "eth_unsubscribe" ->
             IF Len(params) < 1 THEN [result |-> Nil, error |-> -32602]
             ELSE UnsubscribeResponse(params[1])
      [] method = "eth_blockNumber" ->
             [result |-> FmtHex(BlockNumber[ChainOf(conns[conn].chainId)]), error |-> 0]
      [] method = "eth_getLogs" ->
             IF Len(params) < 1 THEN [result |-> Nil, error |-> -32602]
             ELSE GetLogsResponse(ChainOf(conns[conn].chainId), params[1])
      [] OTHER -> [result |-> Nil, error |-> -32601]

\* what the switch on the method does to the registry
Dispatch(conn, method, params) ==
    CASE method = "eth_subscribe" /\ DispatchResponse(conn, method, params).error = 0 ->
             /\ Subscribe(conns[conn].chainId, conn, params[1])
             /\ UNCHANGED unsubscribed
      [] method = "eth_unsubscribe" /\ Len(params) >= 1 ->
             /\ Unsubscribe(params[1])
             /\ UNCHANGED <<nextSubID, issued>>
      [] OTHER -> UNCHANGED <<regVars, issued, unsubscribed>>

\* the response of the handler
Response(conn, method, params, source, selected) ==
    CASE source = "custom" ->
             [result |-> CustomResponse[ChainOf(conns[conn].chainId)].Response,
              error |-> 0, source |-> source]
      [] source = "legacy" -> [result |-> Nil, error |-> -32000, source |-> source]
      [] source = "config" -> [result |-> Nil, error |-> selected.Code, source |-> source]
      [] OTHER ->
             [result |-> DispatchResponse(conn, method, params).result,
              error |-> DispatchResponse(conn, method, params).error,
              source |-> source]

\* one request on a connection of an EVM chain; legacyRoll and roll are what
\* rand.Float64() returns in the legacy check and in ShouldSimulateError
HandleEVMRequest(conn, method, params, legacyRoll, roll) ==
    /\ ServesEVM(conn)
    /\ method = "eth_subscribe" => WithinIds
    /\ LET c == ChainOf(conns[conn].chainId)
           selected == ShouldSimulateError(ErrorConfigs[c], method, roll)
           source == Source(c, method, legacyRoll, selected)
       IN /\ IF ShortCircuits(source)
             THEN UNCHANGED <<regVars, issued, unsubscribed>>
             ELSE Dispatch(conn, method, params)
          /\ last' = [op |-> "request", chain |-> conns[conn].chainId,
                      arg |-> [conn |-> conn, method |-> method, params |-> params,
                               legacyRoll |-> legacyRoll, roll |-> roll],
                      pre |-> 0,
                      ret |-> Response(conn, method, params, source, selected)]
    /\ writes' = <<>>
    /\ bcasts' = <<>>
    /\ UNCHANGED <<chainVars, conns, run, resumeTimers, faultVars, concVars, gateVars, lockVars, tornVars, raceVars>>

\* the requests clients send
Request(conn, legacyRoll, roll) ==
    \/ \E params \in {<<>>, <<"newHeads">>} :
           HandleEVMRequest(conn, "eth_subscribe", params, legacyRoll, roll)
    \/ \E params \in {<<>>} \cup {<<id>> : id \in 1..MaxSubs} :
           HandleEVMRequest(conn, "eth_unsubscribe", params, legacyRoll, roll)
    \/ HandleEVMRequest(conn, "eth_blockNumber", <<>>, legacyRoll, roll)

\* the legacy check calls rand.Float64() only when the probability is positive;
\* 0 stands for no call
DrawnLegacyRolls(c) == IF ErrorProbability[c] > 0 THEN LegacyRolls ELSE {0}

\* one client of the chain, its requests, and the fault configuration calls
NextFault ==
    \/ Connect("c1", "1")
    \/ \E legacyRoll \in DrawnLegacyRolls("ethereum") : \E roll \in Rolls :
           Request("c1", legacyRoll, roll)
    \/ \E c \in FaultChains : \E p \in ErrorProbabilityInputs : SetErrorProbability(c, p)
    \/ \E c \in FaultChains : \E e \in ErrorConfigInputs : AddErrorConfig(c, e)
    \/ \E c \in FaultChains : \E index \in 0..(MaxErrorConfigs - 1) :
           RemoveErrorConfig(c, index)
    \/ \E c \in FaultChains : ClearErrorConfigs(c)
    \/ \E c \in FaultChains : \E custom \in CustomResponseInputs :
           SetCustomResponse(c, custom)

SpecFault == Init /\ [][NextFault]_vars

\* one client of the chain asking for logs while the chain moves
NextQuery ==
    \/ Connect("c1", "1")
    \/ Tick("ethereum")
    \/ \E n \in SetBlockNumbers("ethereum") : SetBlock("ethereum", n)
    \/ \E filterObj \in Filters :
           HandleEVMRequest("c1", "eth_getLogs", <<filterObj>>, 0, 0)

SpecQuery == Init /\ [][NextQuery]_vars

(***************************************************************************)
(* getSlot of the Solana handler.                                          *)
(***************************************************************************)
\* params of the getSlot requests clients send
GetSlotParams ==
    {<<>>} \cup {<<[commitment |-> level]>> : level \in {"processed", "confirmed", "finalized"}}

\* slots an administrator sets before asking for the slot
GetSlotSlots == {2, 100}

\* the result of getSlot: the handler does not read the params
GetSlotResult(params) == BlockNumber["solana"]

SolanaGetSlot(conn, params) ==
    /\ ServesSolana(conn)
    /\ writes' = <<>>
    /\ bcasts' = <<>>
    /\ last' = [op |-> "getSlot", chain |-> conns[conn].chainId, arg |-> params,
                pre |-> 0, ret |-> [result |-> GetSlotResult(params), error |-> 0]]
    /\ UNCHANGED <<chainVars, regVars, conns, run, issued, unsubscribed, resumeTimers,
                   faultVars, concVars, gateVars, lockVars, tornVars, raceVars>>

\* one client of the Solana node asking for the slot while the node moves
NextSlot ==
    \/ Connect("c2", "501")
    \/ Tick("solana")
    \/ \E n \in SetBlockNumbers("solana") \cup GetSlotSlots : SetBlock("solana", n)
    \/ \E params \in GetSlotParams : SolanaGetSlot("c2", params)

SpecSlot == Init /\ [][NextSlot]_vars

(***************************************************************************)
(* Unsubscribe requests whose id is a JSON string.                         *)
(***************************************************************************)
DecChars == <<"0", "1", "2", "3", "4", "5", "6", "7", "8", "9">>

\* the decimal digits of a number, as a client writes them
RECURSIVE DecDigits(_)
DecDigits(n) ==
    IF n < 10 THEN <<DecChars[n + 1]>>
    ELSE DecDigits(n \div 10) \o <<DecChars[(n % 10) + 1]>>

RECURSIVE DecimalValue(_)
DecimalValue(str) ==
    IF str = <<>> THEN 0
    ELSE 10 * DecimalValue(SubSeq(str, 1, Len(str) - 1))
         + (CHOOSE i \in 1..10 : DecChars[i] = str[Len(str)]) - 1

\* strconv.ParseUint(str, 10, 64); -1 stands for an error.  Strings of more
\* than 19 significant digits are taken to overflow.
ParseUintDecimal(str) ==
    IF str = <<>> THEN -1
    ELSE IF \E i \in 1..Len(str) : \A k \in 1..10 : DecChars[k] # str[i] THEN -1
    ELSE IF Len(Significant(str)) > 19 THEN -1
    ELSE DecimalValue(str)

\* variant: an id parser that reads decimal strings only
EthSubscriptionIDDecimal(str) == ParseUintDecimal(str)

\* the id eth_unsubscribe reads from a string: decimal first, then hex
EthSubscriptionID(str) ==
    IF ParseUintDecimal(str) # -1 THEN ParseUintDecimal(str)
    ELSE IF Len(str) > 2 /\ SubSeq(str, 1, 2) = <<"0", "x">>
         THEN ParseUint(SubSeq(str, 3, Len(str)))
    ELSE ParseUint(str)

\* the id slotUnsubscribe and rootUnsubscribe read from a string
SolanaSubscriptionID(str) == ParseUintDecimal(str)

\* the strings clients send as subscription ids
IdStrings == {DecDigits(id) : id \in IssuableIds} \cup {FmtHex(id) : id \in IssuableIds}

\* an unsubscribe request of either family with a string id, the id parsed
UnsubscribeString(op, chainId, str, id) ==
    /\ IF id = -1
       THEN /\ UNCHANGED <<subscriptions, unsubscribed>>
            /\ last' = [op |-> op, chain |-> chainId, arg |-> str, pre |-> 0,
                        ret |-> [result |-> Nil, error |-> -32602]]
       ELSE /\ Unsubscribe(id)
            /\ last' = [op |-> op, chain |-> chainId, arg |-> str, pre |-> 0,
                        ret |-> UnsubscribeResponse(id)]
    /\ writes' = <<>>
    /\ bcasts' = <<>>
    /\ UNCHANGED <<chainVars, nextSubID, conns, run, issued, resumeTimers,
                   faultVars, concVars, gateVars, lockVars, tornVars, raceVars>>

\* eth_unsubscribe with params [id], the id a JSON string
EthUnsubscribeString(conn, str) ==
    /\ ServesEVM(conn)
    /\ UnsubscribeString("eth_unsubscribe_string", conns[conn].chainId, str,
                         EthSubscriptionID(str))

\* slotUnsubscribe and rootUnsubscribe with params [id], the id a JSON string
SolanaUnsubscribeString(conn, str) ==
    /\ ServesSolana(conn)
    /\ UnsubscribeString("slotUnsubscribe_string", "501", str,
                         SolanaSubscriptionID(str))

\* one client per family subscribing and unsubscribing, the ids in every
\* encoding
NextIds ==
    \/ Connect("c1", "1")
    \/ Connect("c2", "501")
    \/ EthSubscribe("c1", "newHeads")
    \/ \E m \in SolanaSubscribeMethods : SolanaSubscribe("c2", m)
    \/ \E id \in IssuableIds : EthUnsubscribe("c1", id)
    \/ \E id \in IssuableIds : SolanaUnsubscribe("c2", id)
    \/ \E str \in IdStrings : EthUnsubscribeString("c1", str)
    \/ \E str \in IdStrings : SolanaUnsubscribeString("c2", str)

SpecIds == InitIds /\ [][NextIds]_vars

(***************************************************************************)
(* SubscriptionManager.BroadcastNewLog, called by the log goroutine each   *)
(* EVM incrementer starts after a block.                                   *)
(***************************************************************************)
\* the chain keys the incrementers broadcast logs under
LogChains == {chainIdToName(c) : c \in supportedChains}

\* log events: the one of the tests and one that differs in every modelled field
LogEvents ==
    {[Address |-> "0x00", BlockNumber |-> 100, TxIndex |-> 0, LogIndex |-> 0,
      Removed |-> FALSE],
     [Address |-> "0xab", BlockNumber |-> 7, TxIndex |-> 1, LogIndex |-> 3,
      Removed |-> TRUE]}

\* variant: a copy that does not look at the kind of a subscription
LogSnapshotOfAllKinds(chainId) ==
    {id \in DOMAIN subscriptions : subscriptions[id].Type = chainId}

\* the subscriptions copied under the read lock
LogSnapshot(chainId) ==
    {id \in DOMAIN subscriptions :
        /\ subscriptions[id].Type = chainId
        /\ subscriptions[id].Method = "logs"}

\* the orders in which ranging over the map may have appended the copy
Orders(S) ==
    {order \in [1..Cardinality(S) -> S] :
        \A i, j \in 1..Cardinality(S) : order[i] = order[j] => i = j}

\* the notification built for one subscription
LogNotification(sub, logEvent) ==
    [conn |-> sub.Conn, id |-> sub.ID, method |-> "eth_subscription",
     subscription |-> FmtHex(sub.ID), result |-> logEvent]

\* the subscriptions whose WriteMessage fails
LogFailed(chainId) ==
    {id \in LogSnapshot(chainId) : ~Writable(subscriptions[id].Conn)}

BroadcastNewLog(chainId, logEvent) ==
    /\ \E order \in Orders(LogSnapshot(chainId)) :
           LET ok(id) == Writable(subscriptions[id].Conn)
               ids == SelectSeq(order, ok)
           IN writes' = [i \in 1..Len(ids) |->
                            LogNotification(subscriptions[ids[i]], logEvent)]
    /\ subscriptions' = Without(subscriptions, LogFailed(chainId))
    /\ unsubscribed' = unsubscribed \cup LogFailed(chainId)
    /\ bcasts' = <<>>
    /\ last' = [op |-> "log", chain |-> chainId, arg |-> logEvent, pre |-> 0,
                ret |-> LogFailed(chainId)]
    /\ UNCHANGED <<chainVars, nextSubID, conns, run, issued, resumeTimers,
                   faultVars, concVars, gateVars, lockVars, tornVars, raceVars>>

\* clients of two EVM chains and of Solana, their subscriptions, and the logs
\* broadcast to them
NextLogs ==
    \/ \E conn \in Conns : \E chainId \in ChainIds : Connect(conn, chainId)
    \/ \E conn \in Conns : PeerGone(conn)
    \/ \E conn \in Conns : \E t \in EthSubscriptionTypes : EthSubscribe(conn, t)
    \/ \E conn \in Conns : \E m \in SolanaSubscribeMethods : SolanaSubscribe(conn, m)
    \/ \E chainId \in LogChains : \E logEvent \in LogEvents :
           BroadcastNewLog(chainId, logEvent)

SpecLogs == Init /\ [][NextLogs]_vars

\* the kinds eth_subscribe registers: newHeads, newHeads with
\* includeTransactions, and logs
HeadKinds == {"newHeads", "newHeadsWithTx", "logs"}

\* clients of two EVM chains, their subscriptions of every kind, and the clock
\* of the first chain
NextHeads ==
    \/ \E conn \in Conns : \E chainId \in LogChains : Connect(conn, chainId)
    \/ \E conn \in Conns : PeerGone(conn)
    \/ \E conn \in Conns : Disconnect(conn)
    \/ \E conn \in Conns : \E kind \in HeadKinds : EthSubscribe(conn, kind)
    \/ Tick("ethereum")

SpecHeads == Init /\ [][NextHeads]_vars

(***************************************************************************)
(* The locking discipline: sm.mu of the SubscriptionManager and the        *)
(* writeMu of each wsConnWrapper, taken by a height broadcast, a log       *)
(* broadcast and DropAllConnections that run as goroutines of their own.   *)
(* A WriteMessage or Close that has taken writeMu is in progress until the *)
(* sink lets it return.                                                    *)
(***************************************************************************)
\* the chain, the height and the log event of the two broadcasts
LockChain == "1"
LockBlockNumber == 5
LockLogEvent ==
    [Address |-> "0x00", BlockNumber |-> 5, TxIndex |-> 0, LogIndex |-> 0,
     Removed |-> FALSE]

\* the subscriptions behind a sequence of ids
Subs(ids) == [i \in 1..Len(ids) |-> subscriptions[ids[i]]]

\* the copies a broadcast can make under the read lock
Copied(t) ==
    IF t = "BroadcastNewBlock"
    THEN {Subs(SortById(Snapshot(LockChain)))}
    ELSE {Subs(order) : order \in Orders(LogSnapshot(LockChain))}

\* the notification a broadcast writes to a subscription of its copy
Written(t, sub) ==
    IF t = "BroadcastNewBlock"
    THEN Notification(LockChain, sub, LockBlockNumber)
    ELSE LogNotification(sub, LockLogEvent)

\* a goroutine moves on to the rest of its copy
Advance(t, rest, then, end) ==
    threads' = [threads EXCEPT ![t] =
                   [pc |-> IF rest = <<>> THEN end ELSE then, subs |-> rest]]

\* a step of a goroutine leaves the rest of the system alone
LockFrame ==
    /\ bcasts' = <<>>
    /\ last' = [op |-> "go", chain |-> Nil, arg |-> 0, pre |-> 0, ret |-> Nil]
    /\ UNCHANGED <<chainVars, nextSubID, run, issued, resumeTimers, faultVars,
                   concVars, gateVars, tornVars, raceVars>>

\* sm.mu.RLock(), the copy of the matching subscriptions, sm.mu.RUnlock()
BroadcastCopy(t) ==
    /\ t \in {"BroadcastNewBlock", "BroadcastNewLog"}
    /\ threads[t].pc = "ready"
    /\ mu = Nil
    /\ \E subs \in Copied(t) : Advance(t, subs, "write", "done")
    /\ writes' = <<>>
    /\ UNCHANGED <<mu, writeMu, subscriptions, conns, unsubscribed>>
    /\ LockFrame

\* sub.Conn.WriteMessage takes writeMu
BroadcastWriteMessage(t) ==
    /\ t \in {"BroadcastNewBlock", "BroadcastNewLog"}
    /\ threads[t].pc = "write"
    /\ writeMu[Head(threads[t].subs).Conn] = Nil
    /\ writeMu' = [writeMu EXCEPT ![Head(threads[t].subs).Conn] = t]
    /\ threads' = [threads EXCEPT ![t].pc = "writing"]
    /\ writes' = <<>>
    /\ UNCHANGED <<mu, subscriptions, conns, unsubscribed>>
    /\ LockFrame

\* variant: a failed write that goes on to Unsubscribe with writeMu still held
BroadcastWrittenHolding(t) ==
    /\ t \in {"BroadcastNewBlock", "BroadcastNewLog"}
    /\ threads[t].pc = "writing"
    /\ LET sub == Head(threads[t].subs)
       IN IF Writable(sub.Conn)
          THEN /\ writeMu' = [writeMu EXCEPT ![sub.Conn] = Nil]
               /\ writes' = <<Written(t, sub)>>
               /\ Advance(t, Tail(threads[t].subs), "write", "done")
          ELSE /\ UNCHANGED writeMu
               /\ writes' = <<>>
               /\ threads' = [threads EXCEPT ![t].pc = "unsubscribe"]
    /\ UNCHANGED <<mu, subscriptions, conns, unsubscribed>>
    /\ LockFrame

\* WriteMessage returns: the message is written, or the write has failed
BroadcastWritten(t) ==
    /\ t \in {"BroadcastNewBlock", "BroadcastNewLog"}
    /\ threads[t].pc = "writing"
    /\ LET sub == Head(threads[t].subs)
       IN /\ writeMu' = [writeMu EXCEPT ![sub.Conn] = Nil]
          /\ IF Writable(sub.Conn)
             THEN /\ writes' = <<Written(t, sub)>>
                  /\ Advance(t, Tail(threads[t].subs), "write", "done")
             ELSE /\ writes' = <<>>
                  /\ threads' = [threads EXCEPT ![t].pc = "unsubscribe"]
    /\ UNCHANGED <<mu, subscriptions, conns, unsubscribed>>
    /\ LockFrame

\* variant: a failed write that removes every subscription of the connection
BroadcastUnsubscribeConn(t) ==
    /\ t \in {"BroadcastNewBlock", "BroadcastNewLog"}
    /\ threads[t].pc = "unsubscribe"
    /\ mu = Nil
    /\ subscriptions' = Without(subscriptions, CleanupIds(Head(threads[t].subs).Conn))
    /\ unsubscribed' = unsubscribed \cup CleanupIds(Head(threads[t].subs).Conn)
    /\ Advance(t, Tail(threads[t].subs), "write", "done")
    /\ writes' = <<>>
    /\ UNCHANGED <<mu, writeMu, conns>>
    /\ LockFrame

\* sm.Unsubscribe(sub.ID) after a failed write, under sm.mu.Lock()
BroadcastUnsubscribe(t) ==
    /\ t \in {"BroadcastNewBlock", "BroadcastNewLog"}
    /\ threads[t].pc = "unsubscribe"
    /\ mu = Nil
    /\ Unsubscribe(Head(threads[t].subs).ID)
    /\ Advance(t, Tail(threads[t].subs), "write", "done")
    /\ writes' = <<>>
    /\ UNCHANGED <<mu, writeMu, conns>>
    /\ LockFrame

\* DropAllConnections: sm.mu.Lock(), and the range over sm.subscriptions begins
DropLock ==
    /\ threads["DropAllConnections"].pc = "ready"
    /\ mu = Nil
    /\ mu' = "DropAllConnections"
    /\ \E order \in Orders(DOMAIN subscriptions) :
           Advance("DropAllConnections", Subs(order), "close", "unlock")
    /\ writes' = <<>>
    /\ UNCHANGED <<writeMu, subscriptions, conns, unsubscribed>>
    /\ LockFrame

\* sub.Conn.Close() takes writeMu
DropClose ==
    /\ threads["DropAllConnections"].pc = "close"
    /\ writeMu[Head(threads["DropAllConnections"].subs).Conn] = Nil
    /\ writeMu' = [writeMu EXCEPT ![Head(threads["DropAllConnections"].subs).Conn] =
                      "DropAllConnections"]
    /\ threads' = [threads EXCEPT !["DropAllConnections"].pc = "closing"]
    /\ writes' = <<>>
    /\ UNCHANGED <<mu, subscriptions, conns, unsubscribed>>
    /\ LockFrame

\* Close returns
DropClosed ==
    /\ threads["DropAllConnections"].pc = "closing"
    /\ LET sub == Head(threads["DropAllConnections"].subs)
       IN /\ writeMu' = [writeMu EXCEPT ![sub.Conn] = Nil]
          /\ conns' = [conns EXCEPT ![sub.Conn].state =
                          IF @ = "open" THEN "dead" ELSE @]
    /\ Advance("DropAllConnections", Tail(threads["DropAllConnections"].subs),
               "close", "unlock")
    /\ writes' = <<>>
    /\ UNCHANGED <<mu, subscriptions, unsubscribed>>
    /\ LockFrame

\* the map is replaced by an empty one and the deferred sm.mu.Unlock() runs
DropUnlock ==
    /\ threads["DropAllConnections"].pc = "unlock"
    /\ subscriptions' = <<>>
    /\ mu' = Nil
    /\ threads' = [threads EXCEPT !["DropAllConnections"].pc = "done"]
    /\ writes' = <<>>
    /\ UNCHANGED <<writeMu, conns, unsubscribed>>
    /\ LockFrame

\* eth_subscribe: Subscribe takes sm.mu.Lock()
LockedSubscribe(conn, subscriptionType) ==
    /\ mu = Nil
    /\ EthSubscribe(conn, subscriptionType)

\* clients of one chain that subscribe while the three goroutines run
NextLock ==
    \/ \E conn \in Conns : Connect(conn, LockChain)
    \/ \E conn \in Conns : PeerGone(conn)
    \/ \E conn \in Conns : \E t \in EthSubscriptionTypes : LockedSubscribe(conn, t)
    \/ \E t \in LockThreads : BroadcastCopy(t)
    \/ \E t \in LockThreads : BroadcastWriteMessage(t)
    \/ \E t \in LockThreads : BroadcastWritten(t)
    \/ \E t \in LockThreads : BroadcastUnsubscribe(t)
    \/ DropLock
    \/ DropClose
    \/ DropClosed
    \/ DropUnlock

SpecLock == Init /\ [][NextLock]_vars

(***************************************************************************)
(* A removal that races a broadcast: the broadcast has copied the          *)
(* subscriptions under the read lock and writes to its copy while a client *)
(* unsubscribes or the connection's handler cleans up.                     *)
(***************************************************************************)
\* eth_unsubscribe: Unsubscribe takes sm.mu.Lock()
LockedUnsubscribe(conn, id) ==
    /\ mu = Nil
    /\ EthUnsubscribe(conn, id)

\* the handler's deferred cleanup: CleanupConnection takes sm.mu.Lock(), and
\* Close takes the connection's writeMu
LockedDisconnect(conn) ==
    /\ mu = Nil
    /\ writeMu[conn] = Nil
    /\ Disconnect(conn)

\* clients of one chain that subscribe to logs, one that unsubscribes and one
\* that goes away, while a height broadcast, a log broadcast and
\* DropAllConnections run
NextDeadlock ==
    \/ \E conn \in Conns : Connect(conn, LockChain)
    \/ \E conn \in Conns : LockedSubscribe(conn, "logs")
    \/ \E id \in 1..MaxSubs : LockedUnsubscribe("c2", id)
    \/ LockedDisconnect("c1")
    \/ \E t \in LockThreads : BroadcastCopy(t)
    \/ \E t \in LockThreads : BroadcastWriteMessage(t)
    \/ \E t \in LockThreads : BroadcastWritten(t)
    \/ \E t \in LockThreads : BroadcastUnsubscribe(t)
    \/ DropLock
    \/ DropClose
    \/ DropClosed
    \/ DropUnlock

SpecDeadlock == Init /\ [][NextDeadlock]_vars

\* the broadcast in flight
Broadcasts == {"BroadcastNewBlock"}

\* clients of one chain that subscribe, unsubscribe and go away while the
\* broadcast runs
NextStale ==
    \/ \E conn \in Conns : Connect(conn, LockChain)
    \/ \E conn \in Conns : PeerGone(conn)
    \/ \E conn \in Conns : \E t \in EthSubscriptionTypes : LockedSubscribe(conn, t)
    \/ \E conn \in Conns : \E id \in 1..MaxSubs : LockedUnsubscribe(conn, id)
    \/ \E conn \in Conns : LockedDisconnect(conn)
    \/ \E t \in Broadcasts : BroadcastCopy(t)
    \/ \E t \in Broadcasts : BroadcastWriteMessage(t)
    \/ \E t \in Broadcasts : BroadcastWritten(t)
    \/ \E t \in Broadcasts : BroadcastUnsubscribe(t)

SpecStale == Init /\ [][NextStale]_vars

(***************************************************************************)
(* Timed interrupts and timed pauses with their durations: each request    *)
(* starts a goroutine that sleeps for the duration and then clears the     *)
(* flag.                                                                   *)
(***************************************************************************)
\* the most goroutines asleep for one chain, the durations in seconds, and the
\* chain the requests name
MaxSleepers == 2
SleepDurations == {1, 2}
SleepChains == {"ethereum"}

\* a step of the timed handlers leaves heights and the registry alone
SleepFrame ==
    /\ NoBroadcast
    /\ UNCHANGED <<BlockNumber, SafeBlockNumber, FinalizedBlockNumber, nextSubID,
                   conns, run, issued, unsubscribed, resumeTimers, faultVars,
                   concVars, gateVars, lockVars, tornVars, reorgers>>

\* handleInterruptBlocks with duration_seconds d: InterruptBlocks, and a
\* goroutine that sleeps d seconds before it calls ResumeBlocks
InterruptBlocksFor(c, d) ==
    /\ d > 0
    /\ Len(sleepers[c]) < MaxSleepers
    /\ BlockInterrupt' = [BlockInterrupt EXCEPT ![c] = 1]
    /\ sleepers' = [sleepers EXCEPT ![c] = Append(@, [kind |-> "interrupt", left |-> d])]
    /\ last' = [op |-> "interrupt_for", chain |-> c, arg |-> d, pre |-> 0, ret |-> Nil]
    /\ UNCHANGED BlockIncrement
    /\ SleepFrame

\* handlePauseUpdates with a chain and duration_seconds d: BlockIncrement is
\* stored 1, and when d > 0 a goroutine sleeps d seconds before it stores 0
PauseUpdates(c, d) ==
    /\ c \in supportedChains
    /\ d > 0 => Len(sleepers[c]) < MaxSleepers
    /\ BlockIncrement' = [BlockIncrement EXCEPT ![c] = 1]
    /\ sleepers' = IF d > 0
                   THEN [sleepers EXCEPT ![c] = Append(@, [kind |-> "pause", left |-> d])]
                   ELSE sleepers
    /\ last' = [op |-> "pause_for", chain |-> c, arg |-> d, pre |-> 0, ret |-> Nil]
    /\ UNCHANGED BlockInterrupt
    /\ SleepFrame

\* a second passes for every goroutine that is asleep
Second ==
    /\ \E c \in Chains : \E i \in DOMAIN sleepers[c] : sleepers[c][i].left > 0
    /\ sleepers' = [c \in Chains |->
                       [i \in DOMAIN sleepers[c] |->
                           [sleepers[c][i] EXCEPT !.left = Max(@ - 1, 0)]]]
    /\ last' = [op |-> "second", chain |-> Nil, arg |-> 0, pre |-> 0, ret |-> Nil]
    /\ UNCHANGED <<BlockIncrement, BlockInterrupt>>
    /\ SleepFrame

\* the sleepers of a chain without the i-th
Woken(c, i) ==
    [j \in 1..(Len(sleepers[c]) - 1) |->
        IF j < i THEN sleepers[c][j] ELSE sleepers[c][j + 1]]

\* a goroutine whose sleep is over: ResumeBlocks, or BlockIncrement stored 0
Wake(c, i) ==
    /\ i \in DOMAIN sleepers[c]
    /\ sleepers[c][i].left = 0
    /\ IF sleepers[c][i].kind = "interrupt"
       THEN /\ BlockInterrupt' = [BlockInterrupt EXCEPT ![c] = 0]
            /\ UNCHANGED BlockIncrement
       ELSE /\ BlockIncrement' = [BlockIncrement EXCEPT ![c] = 0]
            /\ UNCHANGED BlockInterrupt
    /\ sleepers' = [sleepers EXCEPT ![c] = Woken(c, i)]
    /\ last' = [op |-> "wake", chain |-> c, arg |-> i, pre |-> 0, ret |-> Nil]
    /\ SleepFrame

\* timed interrupts and timed pauses of one chain, and its clock
NextSleep ==
    \/ \E c \in SleepChains : \E d \in SleepDurations : InterruptBlocksFor(c, d)
    \/ \E c \in SleepChains : \E d \in SleepDurations \cup {0} : PauseUpdates(c, d)
    \/ Second
    \/ \E c \in SleepChains : \E i \in 1..MaxSleepers : Wake(c, i)
    \/ \E c \in SleepChains : Tick(c)

SpecSleep == Init /\ [][NextSleep]_vars

(***************************************************************************)
(* An incrementer and a request handler as the goroutines they are: each   *)
(* atomic operation is a step, and the other goroutine runs in between.    *)
(***************************************************************************)
\* a step of the incrementer or of the handler leaves the rest alone
TornFrame ==
    /\ UNCHANGED <<BlockIncrement, BlockInterrupt, nextSubID, conns, issued,
                   unsubscribed, resumeTimers, faultVars, concVars, gateVars,
                   lockVars, raceVars>>

\* newBlock := atomic.AddUint64(&c.BlockNumber, 1)
TickerAdd(c) ==
    /\ ticker.pc = "idle"
    /\ Advances(c)
    /\ run[c].n < MaxTicks
    /\ BlockNumber' = [BlockNumber EXCEPT ![c] = @ + 1]
    /\ ticker' = [pc |-> "safe", newBlock |-> BlockNumber[c] + 1]
    /\ run' = [run EXCEPT ![c].n = @ + 1]
    /\ NoBroadcast
    /\ last' = [op |-> "add", chain |-> c, arg |-> 0, pre |-> BlockNumber[c],
                ret |-> Nil]
    /\ UNCHANGED <<SafeBlockNumber, FinalizedBlockNumber, reader>>
    /\ TornFrame

\* atomic.StoreUint64(&c.SafeBlockNumber, ...)
TickerStoreSafe(c) ==
    /\ ticker.pc = "safe"
    /\ SafeBlockNumber' = [SafeBlockNumber EXCEPT ![c] = SafeOf(ticker.newBlock)]
    /\ ticker' = [ticker EXCEPT !.pc = "finalized"]
    /\ NoBroadcast
    /\ last' = [op |-> "store", chain |-> c, arg |-> 0, pre |-> 0, ret |-> Nil]
    /\ UNCHANGED <<BlockNumber, FinalizedBlockNumber, run, reader>>
    /\ TornFrame

\* atomic.StoreUint64(&c.FinalizedBlockNumber, ...)
TickerStoreFinalized(c) ==
    /\ ticker.pc = "finalized"
    /\ FinalizedBlockNumber' =
           [FinalizedBlockNumber EXCEPT ![c] = FinalizedOf(ticker.newBlock)]
    /\ ticker' = [ticker EXCEPT !.pc = "broadcast"]
    /\ NoBroadcast
    /\ last' = [op |-> "store", chain |-> c, arg |-> 0, pre |-> 0, ret |-> Nil]
    /\ UNCHANGED <<BlockNumber, SafeBlockNumber, run, reader>>
    /\ TornFrame

\* variant: an incrementer that broadcasts the height before its own
TickerBroadcastStale(c) ==
    /\ ticker.pc = "broadcast"
    /\ BroadcastNewBlock(chainIdToName(c), ticker.newBlock - 1)
    /\ ticker' = [ticker EXCEPT !.pc = "idle"]
    /\ last' = [op |-> "broadcast", chain |-> c, arg |-> 0, pre |-> 0, ret |-> Nil]
    /\ UNCHANGED <<BlockNumber, SafeBlockNumber, FinalizedBlockNumber, run, reader>>
    /\ TornFrame

\* subManager.BroadcastNewBlock(chainId, newBlock)
TickerBroadcast(c) ==
    /\ ticker.pc = "broadcast"
    /\ BroadcastNewBlock(chainIdToName(c), ticker.newBlock)
    /\ ticker' = [ticker EXCEPT !.pc = "idle"]
    /\ last' = [op |-> "broadcast", chain |-> c, arg |-> 0, pre |-> 0, ret |-> Nil]
    /\ UNCHANGED <<BlockNumber, SafeBlockNumber, FinalizedBlockNumber, run, reader>>
    /\ TornFrame

\* eth_getLogs {fromBlock: "finalized", toBlock: "safe"}:
\* currentBlock := atomic.LoadUint64(&chain.BlockNumber)
GetLogsLoadBlockNumber(c) ==
    /\ reader.pc = "idle"
    /\ reader' = [reader EXCEPT !.pc = "fromBlock", !.currentBlock = BlockNumber[c]]
    /\ NoBroadcast
    /\ last' = [op |-> "load", chain |-> c, arg |-> 0, pre |-> 0, ret |-> Nil]
    /\ UNCHANGED <<BlockNumber, SafeBlockNumber, FinalizedBlockNumber, run, ticker>>
    /\ TornFrame

\* fromBlock = atomic.LoadUint64(&chain.FinalizedBlockNumber)
GetLogsLoadFromBlock(c) ==
    /\ reader.pc = "fromBlock"
    /\ reader' = [reader EXCEPT !.pc = "toBlock",
                                !.fromBlock = FinalizedBlockNumber[c]]
    /\ NoBroadcast
    /\ last' = [op |-> "load", chain |-> c, arg |-> 0, pre |-> 0, ret |-> Nil]
    /\ UNCHANGED <<BlockNumber, SafeBlockNumber, FinalizedBlockNumber, run, ticker>>
    /\ TornFrame

\* toBlock = atomic.LoadUint64(&chain.SafeBlockNumber)
GetLogsLoadToBlock(c) ==
    /\ reader.pc = "toBlock"
    /\ reader' = [reader EXCEPT !.pc = "loaded", !.toBlock = SafeBlockNumber[c]]
    /\ NoBroadcast
    /\ last' = [op |-> "load", chain |-> c, arg |-> 0, pre |-> 0, ret |-> Nil]
    /\ UNCHANGED <<BlockNumber, SafeBlockNumber, FinalizedBlockNumber, run, ticker>>
    /\ TornFrame

\* the range is validated against the three loaded values and the response sent
GetLogsRespond(c) ==
    /\ reader.pc = "loaded"
    /\ reader' = NoReader
    /\ NoBroadcast
    /\ last' = [op |-> "eth_getLogs", chain |-> c, arg |-> 0, pre |-> 0,
                ret |-> [result |-> Nil,
                         error |-> IF \/ reader.toBlock > reader.currentBlock
                                      \/ reader.fromBlock > reader.toBlock
                                   THEN -32000 ELSE 0]]
    /\ UNCHANGED <<BlockNumber, SafeBlockNumber, FinalizedBlockNumber, run, ticker>>
    /\ TornFrame

\* the incrementer of Ethereum, the pause control, a subscriber and a handler of
\* eth_getLogs, step by step
NextTorn ==
    \/ TickerAdd("ethereum")
    \/ TickerStoreSafe("ethereum")
    \/ TickerStoreFinalized("ethereum")
    \/ TickerBroadcast("ethereum")
    \/ GetLogsLoadBlockNumber("ethereum")
    \/ GetLogsLoadFromBlock("ethereum")
    \/ GetLogsLoadToBlock("ethereum")
    \/ GetLogsRespond("ethereum")
    \/ PauseBlock("ethereum")
    \/ ResumeBlock("ethereum")
    \/ Connect("c1", "1")
    \/ EthSubscribe("c1", "newHeads")

SpecTorn == InitTorn /\ [][NextTorn]_vars

\* a chain driven by its incrementer only, and the clients that subscribe to
\* its heights, unsubscribe, and go away
NextStream ==
    \/ \E conn \in Conns : Connect(conn, "1")
    \/ \E conn \in Conns : PeerGone(conn)
    \/ \E conn \in Conns : EthSubscribe(conn, "newHeads")
    \/ \E conn \in Conns : \E id \in 1..MaxSubs : EthUnsubscribe(conn, id)
    \/ PauseBlock("ethereum")
    \/ ResumeBlock("ethereum")
    \/ TickerAdd("ethereum")
    \/ TickerStoreSafe("ethereum")
    \/ TickerStoreFinalized("ethereum")
    \/ TickerBroadcast("ethereum")

SpecStream == Init /\ [][NextStream]_vars

(***************************************************************************)
(* The Solana incrementer, TriggerReorg and handleSetBlock side by side:   *)
(* the incrementer adds and then broadcasts, TriggerReorg loads, stores    *)
(* and then broadcasts, and nothing keeps the others out in between.       *)
(***************************************************************************)
\* the depth of the reorgs and the slot of the set-block requests
RaceBlocks == {1}
RaceSlots == {5}

\* newSlot := atomic.AddUint64(&solanaNode.SlotNumber, 1)
SlotTickerAdd ==
    /\ ticker.pc = "idle"
    /\ Advances("solana")
    /\ run["solana"].n < MaxTicks
    /\ BlockNumber' = [BlockNumber EXCEPT !["solana"] = @ + 1]
    /\ ticker' = [pc |-> "broadcast", newBlock |-> BlockNumber["solana"] + 1]
    /\ run' = [run EXCEPT !["solana"].n = @ + 1]
    /\ NoBroadcast
    /\ last' = [op |-> "add", chain |-> "solana", arg |-> 0,
                pre |-> BlockNumber["solana"], ret |-> Nil]
    /\ UNCHANGED <<SafeBlockNumber, FinalizedBlockNumber, reader>>
    /\ TornFrame

\* a step of TriggerReorg leaves the rest alone
ReorgFrame ==
    /\ UNCHANGED <<SafeBlockNumber, FinalizedBlockNumber, BlockIncrement,
                   BlockInterrupt, nextSubID, conns, run, issued, unsubscribed,
                   resumeTimers, faultVars, concVars, gateVars, lockVars, tornVars,
                   sleepers>>

\* currentSlot := atomic.LoadUint64(&n.SlotNumber), and the return when the
\* chain is not `blocks` high
ReorgLoad(c, r, blocks) ==
    /\ reorgers[r].pc = "idle"
    /\ reorgers' = [reorgers EXCEPT ![r] =
                       IF BlockNumber[c] < blocks
                       THEN [pc |-> "done", currentBlock |-> BlockNumber[c], blocks |-> 0]
                       ELSE [pc |-> "store", currentBlock |-> BlockNumber[c],
                             blocks |-> blocks]]
    /\ NoBroadcast
    /\ last' = [op |-> "reorg_load", chain |-> c, arg |-> blocks, pre |-> BlockNumber[c],
                ret |-> Nil]
    /\ UNCHANGED BlockNumber
    /\ ReorgFrame

\* atomic.StoreUint64(&n.SlotNumber, currentSlot-uint64(blocks))
ReorgStore(c, r) ==
    /\ reorgers[r].pc = "store"
    /\ BlockNumber' = [BlockNumber EXCEPT
                          ![c] = reorgers[r].currentBlock - reorgers[r].blocks]
    /\ reorgers' = [reorgers EXCEPT ![r].pc = "broadcast"]
    /\ NoBroadcast
    /\ last' = [op |-> "reorg_store", chain |-> c, arg |-> reorgers[r].blocks,
                pre |-> BlockNumber[c], ret |-> Nil]
    /\ ReorgFrame

\* subManager.BroadcastNewBlock("501", currentSlot-uint64(blocks))
ReorgBroadcast(c, r) ==
    /\ reorgers[r].pc = "broadcast"
    /\ BroadcastNewBlock(ReorgKey(c), reorgers[r].currentBlock - reorgers[r].blocks)
    /\ reorgers' = [reorgers EXCEPT ![r].pc = "done"]
    /\ last' = [op |-> "reorg_broadcast", chain |-> c, arg |-> reorgers[r].blocks,
                pre |-> BlockNumber[c], ret |-> Nil]
    /\ UNCHANGED BlockNumber
    /\ ReorgFrame

\* the incrementer and every TriggerReorg call are between two iterations
Settled ==
    /\ ticker.pc = "idle"
    /\ \A r \in Reorgers : reorgers[r].pc \in {"idle", "done"}

\* a Solana subscriber, the slot incrementer and two reorgs
NextReorg ==
    \/ Connect("c1", "501")
    \/ SolanaSubscribe("c1", "slotSubscribe")
    \/ SlotTickerAdd
    \/ TickerBroadcast("solana")
    \/ \E r \in Reorgers : \E blocks \in RaceBlocks : ReorgLoad("solana", r, blocks)
    \/ \E r \in Reorgers : ReorgStore("solana", r)
    \/ \E r \in Reorgers : ReorgBroadcast("solana", r)

SpecReorg == Init /\ [][NextReorg]_vars

\* the same with set-block requests
NextRace ==
    \/ NextReorg
    \/ \E n \in RaceSlots : SetBlock("solana", n)

SpecRace == Init /\ [][NextRace]_vars

\* the whole system
Next ==
    \/ NextChain
    \/ NextRegistry
    \/ NextConcurrent
    \/ NextFault
    \/ NextQuery
    \/ NextSlot
    \/ NextIds
    \/ NextLogs
    \/ NextHeads
    \/ NextGate
    \/ NextLock
    \/ NextTorn
    \/ NextStale
    \/ NextInterrupt
    \/ NextSleep
    \/ NextRace
    \/ NextStream
    \/ NextOwner
    \/ NextHTTP
    \/ NextDeadlock

Spec == Init /\ [][Next]_vars

(***************************************************************************)
(* Properties.                                                             *)
(***************************************************************************)
\* the operation of the step just taken
IsOp(op) == last'.op = op

\* C1: after N >= 1 tick advances of a chain with no SetBlock or reorg in between,
\* the height is the height at the start of the run plus N, and on an EVM chain
\* safe = max(0, height - 32) and finalized = max(0, height - 64).
C1_TickRun ==
    \A c \in Chains :
        run[c].n >= 1 =>
            /\ BlockNumber[c] = run[c].base + run[c].n
            /\ c \in supportedChains =>
                   /\ SafeBlockNumber[c] = Max(0, BlockNumber[c] - 32)
                   /\ FinalizedBlockNumber[c] = Max(0, BlockNumber[c] - 64)

\* a run of two ticks that carried an EVM chain past the finalized offset
C1_Witness ==
    /\ last.op = "tick"
    /\ run["ethereum"].n = 2
    /\ run["ethereum"].base = 63
    /\ FinalizedBlockNumber["ethereum"] = 1
    /\ SafeBlockNumber["ethereum"] = 33

\* C2: on every chain finalized <= safe <= height in every state reached by ticks,
\* SetBlock, reorg, pause/resume and interrupt/resume.
C2_FinalizedSafeHeight ==
    \A c \in supportedChains :
        /\ FinalizedBlockNumber[c] <= SafeBlockNumber[c]
        /\ SafeBlockNumber[c] <= BlockNumber[c]

\* C3: a reorg of depth k at height h >= k leaves the height at h - k and issues
\* exactly one height broadcast, carrying h - k; at h < k it changes nothing and
\* issues no broadcast.
C3_Reorg ==
    [][IsOp("reorg") =>
          LET c == last'.chain
              k == last'.arg
              h == BlockNumber[c]
          IN IF h >= k
             THEN /\ BlockNumber'[c] = h - k
                  /\ Len(bcasts') = 1
                  /\ bcasts'[1].blockNumber = h - k
             ELSE /\ UNCHANGED <<chainVars, regVars, conns, resumeTimers>>
                  /\ bcasts' = <<>>
                  /\ writes' = <<>>]_vars

\* a reorg that rolled a chain back while a subscription was registered
C3_Witness ==
    /\ last.op = "reorg"
    /\ last.arg > 0
    /\ last.pre >= last.arg
    /\ BlockNumber[last.chain] = last.pre - last.arg
    /\ Len(bcasts) = 1
    /\ DOMAIN subscriptions # {}

\* the height a written notification carries
Carries(w, blockNumber) ==
    CASE w.method = "eth_subscription" -> w.result.number = FmtHex(blockNumber)
      [] w.method = "slotNotification" -> w.result.slot = blockNumber
      [] w.method = "rootNotification" -> w.result = blockNumber

\* every height-kind subscription of chain c that is registered before the step and
\* whose sink accepts writes is written exactly one notification carrying blockNumber
DeliveredToAll(c, blockNumber) ==
    \A id \in DOMAIN subscriptions :
        (/\ subscriptions[id].Type = chainIdToName(c)
         /\ subscriptions[id].Method \in HeightMethods
         /\ conns[subscriptions[id].Conn].state = "open")
        => /\ Cardinality({i \in 1..Len(writes') : writes'[i].id = id}) = 1
           /\ \A i \in 1..Len(writes') :
                  writes'[i].id = id => Carries(writes'[i], blockNumber)

\* C4: after a reorg of depth k at height h >= k on any chain, every height-kind
\* subscription of that chain whose sink accepts writes receives exactly one
\* notification carrying h - k.
C4_ReorgDelivered ==
    [][(IsOp("reorg") /\ BlockNumber[last'.chain] >= last'.arg) =>
          DeliveredToAll(last'.chain, BlockNumber[last'.chain] - last'.arg)]_vars

\* C5: SetBlock(n) leaves height = n, safe = max(0, n - 32) and
\* finalized = max(0, n - 64), which is what a request handled right after reads.
C5_SetBlockConsistent ==
    last.op = "set" =>
        LET c == last.chain
            n == last.arg
        IN /\ BlockNumber[c] = n
           /\ c \in supportedChains =>
                  /\ BlockByTag(c, "latest") = n
                  /\ BlockByTag(c, "safe") = Max(0, n - 32)
                  /\ BlockByTag(c, "finalized") = Max(0, n - 64)

\* C6: after SetBlock(n) on any chain, every height-kind subscription of that chain
\* whose sink accepts writes receives exactly one notification carrying n.
C6_SetBlockDelivered ==
    [][IsOp("set") => DeliveredToAll(last'.chain, last'.arg)]_vars

\* C7: a tick of an interrupted chain changes no chain state and issues no
\* broadcast, paused or not; a tick of a chain that is paused and not interrupted
\* leaves height, safe and finalized unchanged and issues no broadcast.
C7_TickSkipped ==
    [][IsOp("tick") =>
          LET c == last'.chain
          IN /\ BlockInterrupt[c] = 1 =>
                    /\ UNCHANGED chainVars
                    /\ bcasts' = <<>>
                    /\ writes' = <<>>
             /\ (BlockInterrupt[c] = 0 /\ BlockIncrement[c] = 1) =>
                    /\ UNCHANGED <<BlockNumber, SafeBlockNumber, FinalizedBlockNumber>>
                    /\ bcasts' = <<>>
                    /\ writes' = <<>>]_vars

\* a tick found the chain interrupted and paused, after the chain had advanced
C7_Witness ==
    /\ last.op = "tick"
    /\ BlockInterrupt[last.chain] = 1
    /\ BlockIncrement[last.chain] = 1
    /\ BlockNumber[last.chain] > 1
    /\ bcasts = <<>>

\* C8: the ids Subscribe returns start at 1 and rise by one per call, so none is
\* returned twice, whatever was unsubscribed, cleaned up, dropped or removed after
\* a failed write in between.
C8_IdsMonotonic ==
    /\ \A i \in 1..Len(issued) : issued[i] = i
    /\ \A id \in DOMAIN subscriptions : subscriptions[id].ID = id /\ id <= Len(issued)

\* a second id was handed out after the first subscription had been dropped
C8_Witness ==
    /\ last.op \in {"eth_subscribe", "slotSubscribe", "rootSubscribe"}
    /\ issued = <<1, 2>>
    /\ DOMAIN subscriptions = {2}

\* C9: Unsubscribe of a registered id succeeds and removes exactly that
\* subscription; Unsubscribe of an id that is not registered, in particular of one
\* unsubscribed before, fails with error -32603 and leaves the registry unchanged.
C9_UnsubscribeOnce ==
    [][(IsOp("eth_unsubscribe") \/ IsOp("slotUnsubscribe")) =>
          LET id == last'.arg
          IN /\ IF id \in DOMAIN subscriptions
                THEN /\ last'.ret.error = 0
                     /\ last'.ret.result = TRUE
                     /\ DOMAIN subscriptions' = DOMAIN subscriptions \ {id}
                     /\ \A j \in DOMAIN subscriptions' :
                            subscriptions'[j] = subscriptions[j]
                ELSE /\ last'.ret.error = -32603
                     /\ subscriptions' = subscriptions
             /\ id \in unsubscribed =>
                    /\ last'.ret.error = -32603
                    /\ subscriptions' = subscriptions]_vars

\* an id that was unsubscribed is unsubscribed again, while another stays registered
C9_Witness ==
    /\ last.op \in {"eth_unsubscribe", "slotUnsubscribe"}
    /\ last.arg \in unsubscribed
    /\ last.ret.error = -32603
    /\ DOMAIN subscriptions # {}

\* C10: the cleanup of sink s returns the number of subscriptions registered on s,
\* removes exactly those, and afterwards no subscription refers to s and no
\* broadcast writes to s.
C10_CleanupBySink ==
    [][/\ IsOp("cleanup") =>
              LET s == last'.arg
                  mine == {id \in DOMAIN subscriptions : subscriptions[id].Conn = s}
              IN /\ last'.ret = Cardinality(mine)
                 /\ DOMAIN subscriptions' = DOMAIN subscriptions \ mine
                 /\ \A j \in DOMAIN subscriptions' :
                        subscriptions'[j] = subscriptions[j]
       /\ \A s \in Conns :
              conns[s].state = "closed" =>
                  /\ \A id \in DOMAIN subscriptions' : subscriptions'[id].Conn # s
                  /\ \A i \in 1..Len(writes') : writes'[i].conn # s]_vars

\* a cleanup removed the subscription of its sink and left the subscription of
\* another sink registered
C10_Witness ==
    /\ last.op = "cleanup"
    /\ last.ret = 1
    /\ conns[last.arg].state = "closed"
    /\ Cardinality(DOMAIN subscriptions) = 1
    /\ \A id \in DOMAIN subscriptions : subscriptions[id].Conn # last.arg

\* the subscriptions a height broadcast under key `chain` carrying blockNumber has
\* a notification for: those of the chain with a height kind, a rootNotification
\* only once the root is above 0
Matching(chain, blockNumber) ==
    {id \in DOMAIN subscriptions :
        /\ subscriptions[id].Type = chain
        /\ subscriptions[id].Method \in
               {"newHeads", "newHeadsWithTx", "logs", "slotNotification",
                "rootNotification"}
        /\ subscriptions[id].Method = "rootNotification" => blockNumber > 3}

\* C11: one height broadcast writes exactly one notification to each matching
\* subscription of its chain whose sink accepts the write, and the writes are in
\* strictly ascending subscription-id order.
C11_AscendingOnce ==
    [][bcasts' # <<>> =>
          LET chain == bcasts'[1].chain
              h == bcasts'[1].blockNumber
              open == {id \in Matching(chain, h) :
                          conns[subscriptions[id].Conn].state = "open"}
          IN /\ \A i, j \in 1..Len(writes') : i < j => writes'[i].id < writes'[j].id
             /\ {writes'[i].id : i \in 1..Len(writes')} = open
             /\ \A i \in 1..Len(writes') :
                    writes'[i].conn = subscriptions[writes'[i].id].Conn]_vars

\* one broadcast wrote to two subscriptions of the chain, the lower id first
C11_Witness ==
    /\ Len(bcasts) = 1
    /\ Len(writes) = 2
    /\ writes[1].id = 1
    /\ writes[2].id = 2

\* C12: a height broadcast for one chain never writes to a subscription registered
\* on another chain, be it Solana against an EVM chain or two EVM chains.
C12_ChainIsolation ==
    [][bcasts' # <<>> =>
          \A i \in 1..Len(writes') :
              LET w == writes'[i]
              IN /\ w.id \in DOMAIN subscriptions
                 /\ subscriptions[w.id].Type = bcasts'[1].chain
                 /\ conns[w.conn].chainId = bcasts'[1].chain]_vars

\* a tick of Ethereum wrote to its subscriber and not to the subscription a client
\* of Optimism holds on an open connection
C12_Witness ==
    /\ last.op = "tick"
    /\ last.chain = "ethereum"
    /\ Len(writes) = 1
    /\ subscriptions[writes[1].id].Type = "1"
    /\ \E id \in DOMAIN subscriptions :
           /\ subscriptions[id].Type = "10"
           /\ conns[subscriptions[id].Conn].state = "open"

\* C13: when a sink write fails during a broadcast, the subscription whose write
\* failed is removed, the other subscriptions of the broadcast are still written
\* to, every other subscription stays registered as it was, and the operation
\* that broadcast completes as it does without the failure.
C13_FailedWriteRemoves ==
    [][bcasts' # <<>> =>
          LET chain == bcasts'[1].chain
              h == bcasts'[1].blockNumber
              failed == {id \in Matching(chain, h) :
                            conns[subscriptions[id].Conn].state # "open"}
          IN /\ DOMAIN subscriptions' = DOMAIN subscriptions \ failed
             /\ \A id \in DOMAIN subscriptions' : subscriptions'[id] = subscriptions[id]
             /\ \A id \in Matching(chain, h) \ failed :
                    \E i \in 1..Len(writes') : writes'[i].id = id
             /\ \A i \in 1..Len(writes') : writes'[i].id \notin failed
             /\ IsOp("tick") => BlockNumber'[last'.chain] = last'.pre + 1
             /\ IsOp("set") => BlockNumber'[last'.chain] = last'.arg]_vars

\* a tick whose first write failed: subscription 1 was removed, subscription 2
\* was written to and stays registered, and the chain advanced
C13_Witness ==
    /\ last.op = "tick"
    /\ Len(bcasts) = 1
    /\ bcasts[1].failed = {1}
    /\ Len(writes) = 1
    /\ writes[1].id = 2
    /\ DOMAIN subscriptions = {2}
    /\ BlockNumber[last.chain] = last.pre + 1

\* the messages the mock connection holds
TotalMessages ==
    LET RECURSIVE Sum(_)
        Sum(S) == IF S = {} THEN 0
                  ELSE LET k == CHOOSE x \in S : TRUE
                       IN messages[k] + Sum(S \ {k})
    IN Sum(DOMAIN messages)

\* C14: with ConcurrentSubs subscriptions per chain made by concurrent Subscribe
\* calls and ConcurrentBroadcasts concurrent broadcasts per chain, all Subscribe
\* calls end up registered with distinct ids, no subscription ever holds more
\* messages than broadcasts of its chain, and when all goroutines are done every
\* subscription holds exactly ConcurrentBroadcasts messages.
C14_ConcurrentDelivery ==
    /\ \A id \in DOMAIN messages : messages[id] <= ConcurrentBroadcasts
    /\ Subscribed =>
           /\ Cardinality(DOMAIN subscriptions) = 2 * ConcurrentSubs
           /\ Len(issued) = 2 * ConcurrentSubs
           /\ \A i, j \in 1..Len(issued) : i # j => issued[i] # issued[j]
           /\ \A chain \in ConcurrentChains :
                  Cardinality({id \in DOMAIN subscriptions :
                                  subscriptions[id].Type = chain}) = ConcurrentSubs
    /\ (\A g \in Goroutines : goroutines[g].pc = "done") =>
           /\ \A id \in DOMAIN subscriptions :
                  id \in DOMAIN messages /\ messages[id] = ConcurrentBroadcasts
           /\ TotalMessages = 2 * ConcurrentSubs * ConcurrentBroadcasts

\* every goroutine has finished and the mock holds all the messages
C14_Witness ==
    /\ \A g \in Goroutines : goroutines[g].pc = "done"
    /\ TotalMessages = 2 * ConcurrentSubs * ConcurrentBroadcasts
    /\ TotalMessages >= 8

\* the last step was a request answered by the given source
AnsweredBy(sources) == last.op = "request" /\ last.ret.source \in sources

\* C15: a request that fault injection fails (by the legacy probability or by an
\* ErrorConfig entry) returns the error and changes nothing: no subscription is
\* created or removed, no id is consumed, and height, safe and finalized stay.
C15_FaultShortCircuits ==
    [][IsOp("request") /\ last'.ret.source \in {"legacy", "config"} =>
          /\ last'.ret.error # 0
          /\ last'.ret.result = Nil
          /\ UNCHANGED <<subscriptions, nextSubID, issued, unsubscribed>>
          /\ UNCHANGED <<BlockNumber, SafeBlockNumber, FinalizedBlockNumber>>]_vars

\* an eth_subscribe for newHeads failed by an ErrorConfig entry while one earlier
\* subscription exists: the registry still holds that one only, and the last id
\* issued is still 1
C15_Witness ==
    /\ AnsweredBy({"config"})
    /\ last.arg.method = "eth_subscribe"
    /\ last.arg.params = <<"newHeads">>
    /\ DOMAIN subscriptions = {1}
    /\ nextSubID = 1
    /\ issued = <<1>>

\* the entries the selection considers for a method
Considered(errorConfigs, method) ==
    SelectSeq(errorConfigs, LAMBDA e : e.Methods = {} \/ method \in e.Methods)

\* the first of the entries whose cumulative probability reaches the roll
FirstReaching(errors, roll) ==
    errors[CHOOSE i \in 1..Len(errors) :
              /\ Cumulative(errors, i) >= roll
              /\ \A j \in 1..(i - 1) : Cumulative(errors, j) < roll]

\* the error code the selection of the last request produced, 0 for none
SelectedCode == IF last.ret.source = "config" THEN last.ret.error ELSE 0

\* C16 as stated: with S the sum of the probabilities of the considered entries,
\* the selection returns no error when no entry is considered or roll > S, and
\* otherwise the first considered entry whose cumulative sum is >= roll.
C16_SelectionAsStated ==
    AnsweredBy({"config", "handler"}) =>
        LET errors == Considered(ErrorConfigs[ChainOf(last.chain)], last.arg.method)
            S == Cumulative(errors, Len(errors))
        IN SelectedCode =
               IF Len(errors) = 0 \/ last.arg.roll > S THEN 0
               ELSE FirstReaching(errors, last.arg.roll).Code

\* C16, amended: the selection returns no error when no entry is considered,
\* when S = 0, or when roll > S, and otherwise the first considered entry whose
\* cumulative sum is >= roll.
C16_Selection ==
    AnsweredBy({"config", "handler"}) =>
        LET errors == Considered(ErrorConfigs[ChainOf(last.chain)], last.arg.method)
            S == Cumulative(errors, Len(errors))
        IN SelectedCode =
               IF Len(errors) = 0 \/ S = 0 \/ last.arg.roll > S THEN 0
               ELSE FirstReaching(errors, last.arg.roll).Code

\* two entries of 0.3, the second for eth_subscribe only: an eth_subscribe with
\* roll 0.5 gets the second entry
C16_Witness ==
    /\ AnsweredBy({"config"})
    /\ last.arg.method = "eth_subscribe"
    /\ last.arg.roll = 5
    /\ Len(ErrorConfigs["ethereum"]) = 2
    /\ ErrorConfigs["ethereum"][1].Code = -32005
    /\ ErrorConfigs["ethereum"][2].Code = -32001
    /\ last.ret.error = -32001

\* C17: the legacy error probability fails a request only when the chain's
\* ErrorConfigs list is empty.
C17_LegacyOnlyWhenEmpty ==
    AnsweredBy({"legacy"}) => ErrorConfigs[ChainOf(last.chain)] = <<>>

Spellings(n) ==
    {FmtHex(n), HexDigits(n),
     <<"0", "x">> \o [i \in 1..Len(HexDigits(n)) |->
                        IF \E k \in 1..6 : HexChars[k + 10] = HexDigits(n)[i]
                        THEN UpperHexChars[CHOOSE k \in 1..6 :
                                              HexChars[k + 10] = HexDigits(n)[i]]
                        ELSE HexDigits(n)[i]]}

\* block numbers a filter may spell
Spelled == 0..255

\* the string is a block tag of the claim or spells a block number
Denotes(str) ==
    \/ str \in {TagLatest, TagSafe, TagFinalized, TagEarliest}
    \/ \E n \in Spelled : str \in Spellings(n)

\* the block number a string denotes on a chain
Denoted(c, str) ==
    CASE str = TagLatest -> BlockNumber[c]
      [] str = TagSafe -> SafeBlockNumber[c]
      [] str = TagFinalized -> FinalizedBlockNumber[c]
      [] str = TagEarliest -> 0
      [] OTHER -> CHOOSE n \in Spelled : str \in Spellings(n)

\* C19: eth_getLogs with fromBlock and toBlock resolved (a hexadecimal number or
\* one of the tags latest, safe, finalized, earliest; an absent fromBlock is 0,
\* an absent toBlock the height H) returns error -32000 exactly when
\* toBlock > H or fromBlock > toBlock, and otherwise an empty array and no error.
C19_GetLogsRange ==
    (/\ last.op = "request"
     /\ last.arg.method = "eth_getLogs"
     /\ \A key \in DOMAIN last.arg.params[1] : Denotes(last.arg.params[1][key]))
    => LET c == ChainOf(last.chain)
           filterObj == last.arg.params[1]
           H == BlockNumber[c]
           from == IF "fromBlock" \in DOMAIN filterObj
                   THEN Denoted(c, filterObj["fromBlock"]) ELSE 0
           to == IF "toBlock" \in DOMAIN filterObj
                 THEN Denoted(c, filterObj["toBlock"]) ELSE H
       IN IF to > H \/ from > to
          THEN last.ret.error = -32000 /\ last.ret.result = Nil
          ELSE last.ret.error = 0 /\ last.ret.result = <<>>

\* fromBlock 0x1 and toBlock 0xFF on a chain whose height is 64 after a tick:
\* the range is rejected
C19_Witness ==
    /\ last.op = "request"
    /\ last.arg.method = "eth_getLogs"
    /\ last.arg.params[1] =
           [fromBlock |-> <<"0", "x", "1">>, toBlock |-> <<"0", "x", "F", "F">>]
    /\ BlockNumber["ethereum"] = 64
    /\ last.ret.error = -32000

\* the slots a commitment level lags behind the current slot
CommitmentDepth(params) ==
    IF params = <<>> THEN 0
    ELSE CASE params[1].commitment = "processed" -> 0
           [] params[1].commitment = "confirmed" -> 1
           [] params[1].commitment = "finalized" -> 3

\* C20: getSlot at slot s returns max(0, s - d), d being 0 without params or
\* for "processed", 1 for "confirmed" and 3 for "finalized".
C20_GetSlotCommitment ==
    last.op = "getSlot" =>
        last.ret.result = Max(0, BlockNumber["solana"] - CommitmentDepth(last.arg))

\* the step is an unsubscribe request of the family of subscription id whose
\* param is the id as a JSON number, a decimal string or a "0x" hex string
UnsubscribesById(id) ==
    LET evm == subscriptions[id].Type # "501"
    IN \/ /\ IsOp(IF evm THEN "eth_unsubscribe" ELSE "slotUnsubscribe")
          /\ last'.arg = id
       \/ /\ IsOp(IF evm THEN "eth_unsubscribe_string" ELSE "slotUnsubscribe_string")
          /\ last'.arg \in {DecDigits(id), FmtHex(id)}

\* C21: an unsubscribe request of the subscription's family that gives the id of
\* a registered subscription as a JSON number, as a decimal string or as a
\* "0x"-prefixed hex string removes that subscription and answers true.
C21_UnsubscribeEncodings ==
    [][\A id \in DOMAIN subscriptions :
          UnsubscribesById(id) =>
              /\ last'.ret.error = 0
              /\ last'.ret.result = TRUE
              /\ subscriptions' = Without(subscriptions, {id})]_vars

\* C22: an unsubscribe request that follows a subscribe request of its family
\* and passes the value the subscribe returned removes exactly the subscription
\* that subscribe created and answers true.
C22_RoundTrip ==
    [][(\/ last.op = "eth_subscribe" /\ IsOp("eth_unsubscribe_string")
        \/ last.op \in SolanaSubscribeMethods /\ IsOp("slotUnsubscribe"))
       /\ last'.arg = last.ret.result
       => /\ nextSubID \in DOMAIN subscriptions
          /\ subscriptions' = Without(subscriptions, {nextSubID})
          /\ last'.ret.error = 0
          /\ last'.ret.result = TRUE]_vars

\* the subscription with id 16 was unsubscribed by the string "0x10" that
\* eth_subscribe returned, and the subscription with id 15 is still registered
C22_Witness ==
    /\ last.op = "eth_unsubscribe_string"
    /\ last.arg = <<"0", "x", "1", "0">>
    /\ last.ret.error = 0
    /\ nextSubID = 16
    /\ 16 \in unsubscribed
    /\ DOMAIN subscriptions = {15}

\* C23: the slotNotification of a broadcast of height h on the Solana chain
\* carries slot = h, root = max(0, h - 3) and parent = h - 1 with parent < slot;
\* at h = 0 the parent is therefore not the unsigned value 2^64 - 1.
C23_SlotPayload ==
    (bcasts # <<>> /\ bcasts[1].chain = "501") =>
        \A i \in 1..Len(writes) :
            writes[i].method = "slotNotification" =>
                LET h == bcasts[1].blockNumber
                    payload == writes[i].result
                IN /\ payload.slot = h
                   /\ payload.root = Max(0, h - 3)
                   /\ h > 0 => payload.parent = h - 1 /\ payload.parent < payload.slot
                   /\ h = 0 => payload.parent # MaxUint64

\* C24: a height broadcast at height h on the Solana chain writes to a
\* rootNotification subscription whose sink accepts writes exactly one
\* rootNotification carrying h - 3 when h > 3, and writes nothing to it and keeps
\* it registered when h <= 3.
C24_RootNotification ==
    [][(bcasts' # <<>> /\ bcasts'[1].chain = "501") =>
          LET h == bcasts'[1].blockNumber
          IN \A id \in DOMAIN subscriptions :
                 (/\ subscriptions[id].Type = "501"
                  /\ subscriptions[id].Method = "rootNotification"
                  /\ conns[subscriptions[id].Conn].state = "open")
                 => LET to == {i \in 1..Len(writes') : writes'[i].id = id}
                    IN IF h > 3
                       THEN /\ Cardinality(to) = 1
                            /\ \A i \in to : /\ writes'[i].method = "rootNotification"
                                              /\ writes'[i].result = h - 3
                       ELSE /\ to = {}
                            /\ id \in DOMAIN subscriptions'
                            /\ subscriptions'[id] = subscriptions[id]]_vars

\* a tick carried the Solana chain from slot 6 to slot 7 and the root
\* subscription was written root 4
C24_Witness ==
    /\ last.op = "tick"
    /\ last.chain = "solana"
    /\ BlockNumber["solana"] = 7
    /\ Len(writes) = 1
    /\ writes[1].method = "rootNotification"
    /\ writes[1].result = 4
    /\ writes[1].id \in DOMAIN subscriptions

\* C25: a log broadcast for a chain writes the event, unmodified, exactly once
\* to every "logs" subscription of that chain whose sink accepts writes, and
\* writes nothing to a subscription of another kind or of another chain.
C25_LogDelivery ==
    [][IsOp("log") =>
          \A id \in DOMAIN subscriptions :
              LET to == {i \in 1..Len(writes') : writes'[i].id = id}
                  sub == subscriptions[id]
              IN IF sub.Type = last'.chain /\ sub.Method = "logs"
                 THEN conns[sub.Conn].state = "open" =>
                          /\ Cardinality(to) = 1
                          /\ \A i \in to : /\ writes'[i].result = last'.arg
                                           /\ writes'[i].conn = sub.Conn
                                           /\ writes'[i].subscription = FmtHex(id)
                 ELSE to = {}]_vars

\* a log broadcast on chain "1" was written once, to the logs subscription
\* there, while another subscription with an open sink was written nothing
C25_Witness ==
    /\ last.op = "log"
    /\ last.chain = "1"
    /\ last.arg.Removed
    /\ Len(writes) = 1
    /\ writes[1].result = last.arg
    /\ Cardinality(DOMAIN subscriptions) = 2
    /\ \E id \in DOMAIN subscriptions :
           /\ id # writes[1].id
           /\ conns[subscriptions[id].Conn].state = "open"

\* C26: a height broadcast on an EVM chain writes exactly one header
\* notification to every subscription of that chain of kind newHeads,
\* newHeadsWithTx or logs whose sink accepts writes, carrying the subscription's
\* own id in hex and the height of the broadcast.
C26_HeaderToEveryKind ==
    [][(bcasts' # <<>> /\ bcasts'[1].chain \in EVMBroadcastChains) =>
          \A id \in DOMAIN subscriptions :
              (/\ subscriptions[id].Type = bcasts'[1].chain
               /\ subscriptions[id].Method \in {"newHeads", "newHeadsWithTx", "logs"}
               /\ conns[subscriptions[id].Conn].state = "open")
              => LET to == {i \in 1..Len(writes') : writes'[i].id = id}
                 IN /\ Cardinality(to) = 1
                    /\ \A i \in to :
                           /\ writes'[i].method = "eth_subscription"
                           /\ writes'[i].subscription = FmtHex(id)
                           /\ writes'[i].result.number =
                                  FmtHex(bcasts'[1].blockNumber)]_vars

\* a tick of Ethereum wrote one header of block 2 to a logs subscription and one
\* to a newHeadsWithTx subscription
C26_Witness ==
    /\ last.op = "tick"
    /\ BlockNumber["ethereum"] = 2
    /\ Len(writes) = 2
    /\ {subscriptions[writes[i].id].Method : i \in 1..2} = {"logs", "newHeadsWithTx"}
    /\ \A i \in 1..2 : writes[i].result.number = <<"0", "x", "2">>

\* C27: after a drop-all-connections request, every client connection that was
\* open before it is closed, the connections that hold no subscription
\* included, and the subscription registry is empty.
C27_DropClosesEveryConnection ==
    [][IsOp("drop") =>
          /\ DOMAIN subscriptions' = {}
          /\ \A c \in Conns : conns[c].state = "open" => conns'[c].state # "open"]_vars

C29_NoSinkIOUnderLock ==
    \A t \in LockThreads : mu = t => threads[t].pc \notin {"writing", "closing"}

\* C30: the height, safe and finalized block a request handler has loaded while
\* the incrementer of the chain runs are those of one single height:
\* safe = max(0, height - 32) and finalized = max(0, height - 64).
C30_NoTornRead ==
    reader.pc = "loaded" =>
        /\ reader.toBlock = Max(0, reader.currentBlock - 32)
        /\ reader.fromBlock = Max(0, reader.currentBlock - 64)

\* C31: pause and resume change only the paused flag of the chains they
\* address, interrupt and the resume from an interrupt change only the
\* interrupted flag of their chain, none of them changes height, safe, finalized
\* or the subscription registry, and a tick that follows a resume from an
\* interrupt on a chain that is still paused does not advance the height.
C31_FlagsOnly ==
    [][/\ (IsOp("pause") \/ IsOp("resume")) =>
              /\ UNCHANGED <<BlockNumber, SafeBlockNumber, FinalizedBlockNumber,
                             BlockInterrupt, regVars>>
              /\ \A c \in Chains :
                     BlockIncrement'[c] =
                         IF c \in Addressed(last'.chain)
                         THEN (IF IsOp("pause") THEN 1 ELSE 0)
                         ELSE BlockIncrement[c]
       /\ (IsOp("interrupt") \/ IsOp("uninterrupt")) =>
              /\ UNCHANGED <<BlockNumber, SafeBlockNumber, FinalizedBlockNumber,
                             BlockIncrement, regVars>>
              /\ \A c \in Chains :
                     BlockInterrupt'[c] =
                         IF c = last'.chain
                         THEN (IF IsOp("interrupt") THEN 1 ELSE 0)
                         ELSE BlockInterrupt[c]
       /\ (/\ last.op = "uninterrupt"
           /\ IsOp("tick")
           /\ last'.chain = last.chain
           /\ BlockIncrement[last.chain] = 1) =>
              UNCHANGED <<BlockNumber, SafeBlockNumber, FinalizedBlockNumber>>]_vars

\* the timer of an interrupt has resumed Ethereum, which was paused in the
\* meantime and had ticked once before
C31_Witness ==
    /\ last.op = "uninterrupt"
    /\ last.chain = "ethereum"
    /\ BlockIncrement["ethereum"] = 1
    /\ BlockInterrupt["ethereum"] = 0
    /\ BlockNumber["ethereum"] = 2
    /\ SafeBlockNumber["ethereum"] = 0

\* the steps a broadcast has left: three for each subscription of its copy,
\* fewer as the write to the first of them goes on
StepsLeft(t) ==
    IF threads[t].pc = "done" THEN 0
    ELSE 3 * Len(threads[t].subs) -
         (CASE threads[t].pc = "writing" -> 1
            [] threads[t].pc = "unsubscribe" -> 2
            [] OTHER -> 0)

\* a broadcast in flight can take its next step
StaleProgress ==
    \A t \in Broadcasts :
        threads[t].pc \in {"write", "writing", "unsubscribe"} =>
            ENABLED (\/ BroadcastWriteMessage(t)
                     \/ BroadcastWritten(t)
                     \/ BroadcastUnsubscribe(t))

\* what a step may do to the registry while a broadcast is in flight
StaleStep ==
    /\ \A id \in DOMAIN subscriptions' \ DOMAIN subscriptions :
          IsOp("eth_subscribe") /\ \A i \in DOMAIN issued : issued[i] # id
    /\ \A id \in DOMAIN subscriptions \cap DOMAIN subscriptions' :
          subscriptions'[id] = subscriptions[id]
    /\ \A t \in Broadcasts :
          /\ ~IsOp("go") => threads'[t] = threads[t]
          /\ (IsOp("go") /\ threads'[t] # threads[t]) =>
              /\ threads[t].pc # "ready" =>
                     /\ threads[t].pc # "done"
                     /\ StepsLeft(t)' < StepsLeft(t)
              /\ DOMAIN subscriptions' \subseteq DOMAIN subscriptions
              /\ DOMAIN subscriptions \ DOMAIN subscriptions' \subseteq
                     (IF threads[t].pc = "unsubscribe"
                      THEN {Head(threads[t].subs).ID} ELSE {})
              /\ (threads[t].pc = "unsubscribe" /\ ~Exists(Head(threads[t].subs).ID)) =>
                     /\ UNCHANGED <<subscriptions, unsubscribed, conns>>
                     /\ threads'[t].subs = Tail(threads[t].subs)
                     /\ threads'[t].pc \in {"write", "done"}
                     /\ last'.ret = Nil

\* C32: a removal that races a broadcast which has copied the subscription:
\* the broadcast in flight can always take its next step and has fewer steps
\* left after each, no other operation holds it back or sets it back, a step of
\* the broadcast adds no subscription and removes at most the one whose write
\* has just failed, an id that was issued is never registered again, and the
\* removal of a subscription that is already gone changes nothing and lets the
\* broadcast go on without an error
C32_StaleRemoval ==
    /\ []StaleProgress
    /\ [][StaleStep]_vars

C32_Witness ==
    /\ threads["BroadcastNewBlock"].pc = "unsubscribe"
    /\ Len(threads["BroadcastNewBlock"].subs) = 2
    /\ threads["BroadcastNewBlock"].subs[1].ID = 1
    /\ threads["BroadcastNewBlock"].subs[2].ID = 2
    /\ conns["c1"].state = "closed"
    /\ conns["c2"].state = "open"
    /\ DOMAIN subscriptions = {2}
    /\ unsubscribed = {}

\* C33: an interrupt that was accepted leads to a state where the chain is not
\* interrupted, with no step but the expiry of the timer required to happen,
\* and a tick of a chain that is neither interrupted nor paused advances the
\* height by one
C33_InterruptEnds ==
    /\ \A c \in ControlChains :
          (last.op = "interrupt" /\ last.chain = c) ~> (BlockInterrupt[c] = 0)
    /\ [][\A c \in ControlChains :
             (IsOp("tick") /\ last'.chain = c /\ BlockInterrupt[c] = 0
              /\ BlockIncrement[c] = 0) =>
                 BlockNumber'[c] = BlockNumber[c] + 1]_vars

C33_Witness ==
    /\ last.op = "uninterrupt" /\ last.chain = "solana"
    /\ BlockInterrupt["solana"] = 0 /\ resumeTimers["solana"] = 0
    /\ BlockIncrement["solana"] = 0
    /\ BlockNumber["solana"] = 2

\* C34: while the duration of an interrupt request has not elapsed the chain is
\* interrupted, and while the duration of a timed pause has not elapsed the
\* chain is paused, whatever timers of earlier requests have expired
C34_OwnDuration ==
    \A c \in SleepChains : \A i \in DOMAIN sleepers[c] :
        sleepers[c][i].left > 0 =>
            IF sleepers[c][i].kind = "interrupt"
            THEN BlockInterrupt[c] = 1
            ELSE BlockIncrement[c] = 1

\* C35: once the incrementer, the reorgs and the set-block requests that ran
\* side by side have completed, the notifications the last of them delivered
\* carry the stored height of the chain
C35_LastNotificationIsHeight ==
    (Settled /\ writes # <<>>) =>
        \A i \in DOMAIN writes : writes[i].result.slot = BlockNumber["solana"]

\* C36: once the incrementer and the reorgs that ran side by side have
\* completed, the height is the initial height plus the number of tick advances
\* minus the depth of every reorg that rolled back
C36_ReorgAtomic ==
    Settled =>
        BlockNumber["solana"] =
            run["solana"].base + run["solana"].n
                - reorgers["first"].blocks - reorgers["second"].blocks

\* the notifications a step writes to a subscription
WritesTo(id) == {i \in DOMAIN writes' : writes'[i].id = id}

\* a step of a chain that only its incrementer drives
StreamStep ==
    /\ IsOp("add") =>
          /\ ticker.pc = "idle"
          /\ ticker'.pc # "idle"
          /\ BlockNumber'["ethereum"] = BlockNumber["ethereum"] + 1
          /\ ticker'.newBlock = BlockNumber'["ethereum"]
    /\ ~IsOp("add") =>
          /\ BlockNumber'["ethereum"] = BlockNumber["ethereum"]
          /\ ticker'.newBlock = ticker.newBlock
          /\ ticker.pc = "idle" => ticker'.pc = "idle"
    /\ ~IsOp("broadcast") =>
          /\ writes' = <<>>
          /\ ticker.pc # "idle" => ticker'.pc # "idle"
    /\ IsOp("broadcast") =>
          /\ ticker.pc = "broadcast"
          /\ ticker'.pc = "idle"
          /\ ticker.newBlock = BlockNumber["ethereum"]
          /\ \A i \in DOMAIN writes' :
                /\ writes'[i].id \in DOMAIN subscriptions
                /\ writes'[i].conn = subscriptions[writes'[i].id].Conn
                /\ writes'[i].result.number = FmtHex(BlockNumber["ethereum"])
          /\ \A id \in DOMAIN subscriptions :
                Writable(subscriptions[id].Conn) =>
                    /\ Cardinality(WritesTo(id)) = 1
                    /\ id \in DOMAIN subscriptions'

\* C37: on a chain that only its incrementer drives, the incrementer adds one to
\* the height and broadcasts that height before it adds again, nothing else
\* changes the height or writes a notification, and each broadcast writes its
\* height exactly once to every subscription that is registered and whose
\* connection accepts the write: such a subscription receives consecutive
\* heights, each once and in order
C37_ConsecutiveHeights == [][StreamStep]_vars

C37_Witness ==
    /\ last.op = "broadcast"
    /\ BlockNumber["ethereum"] = 3
    /\ Len(writes) = 2
    /\ writes[1].id = 1 /\ writes[1].result.number = FmtHex(3)
    /\ writes[2].id = 2 /\ writes[2].result.number = FmtHex(3)
    /\ unsubscribed = {}

\* C38: an unsubscribe request removes only a subscription that was created on
\* the requesting connection and on the chain the request is addressed to
C38_OwnSubscriptionsOnly ==
    [][(IsOp("eth_unsubscribe") \/ IsOp("slotUnsubscribe")) =>
           \A id \in DOMAIN subscriptions \ DOMAIN subscriptions' :
               /\ subscriptions[id].Conn = Requester
               /\ subscriptions[id].Type = last'.chain]_vars

\* C39: every subscription in the registry belongs to a WebSocket connection
\* whose handler has not cleaned up yet, and the registry is empty once every
\* connection has disconnected
C39_OwnedByOpenConnection ==
    /\ \A id \in DOMAIN subscriptions :
          /\ subscriptions[id].Conn \in Conns
          /\ conns[subscriptions[id].Conn].state \in {"open", "dead"}
    /\ (\A conn \in Conns : conns[conn].state \in {"free", "closed"}) =>
          DOMAIN subscriptions = {}

\* a step of a goroutine that has begun and has not finished
GoroutineStep ==
    \/ \E t \in LockThreads : BroadcastWriteMessage(t)
    \/ \E t \in LockThreads : BroadcastWritten(t)
    \/ \E t \in LockThreads : BroadcastUnsubscribe(t)
    \/ DropClose
    \/ DropClosed
    \/ DropUnlock

\* C40: no deadlock: a goroutine that holds a write lock is inside WriteMessage
\* or Close and waits for no lock, only DropAllConnections holds the registry
\* lock across steps and it is never where the registry lock is requested, and
\* whenever a goroutine is under way some goroutine can take a step
C40_NoDeadlock ==
    /\ \A conn \in Conns :
          writeMu[conn] # Nil =>
              /\ threads[writeMu[conn]].pc \in {"writing", "closing"}
              /\ Head(threads[writeMu[conn]].subs).Conn = conn
    /\ mu # Nil =>
          /\ mu = "DropAllConnections"
          /\ threads[mu].pc \in {"close", "closing", "unlock"}
    /\ (\E t \in LockThreads : threads[t].pc \notin {"ready", "done"}) =>
          ENABLED GoroutineStep

C40_Witness ==
    /\ mu = "DropAllConnections"
    /\ threads["DropAllConnections"].pc = "close"
    /\ writeMu[Head(threads["DropAllConnections"].subs).Conn] = "BroadcastNewBlock"
    /\ threads["BroadcastNewLog"].pc = "unsubscribe"
====
